---- MODULE Spec2Model ----
(***************************************************************************)
(* genkitx-langfuse: the span classification and export pipeline.          *)
(*                                                                         *)
(*   src/src/metadata-extractor.ts   SpanMetadataExtractor                 *)
(*   src/src/exporter.ts             LangfuseExporter                      *)
(*   src/src/telemetry-provider.ts   LangfuseTelemetryProvider             *)
(*   src/unnamed/part_001            enableLangfuseTelemetry, create...    *)
(*                                                                         *)
(* JavaScript values are tagged records (undefined, a string, a boolean).  *)
(* A string is a sequence of pieces: a path "/a/b" is <<"a", "b">> (its    *)
(* segments), a span name "generateText" is <<"generate", "Text">> (its    *)
(* fragments), an attribute key "a:b" is <<"a", "b">>, a JSON text is the  *)
(* sequence of its tokens, any other string is <<"whole">>.                *)
(***************************************************************************)
EXTENDS Integers, Sequences, FiniteSets, TLC

VARIABLES
    provider,         \* the LangfuseTelemetryProvider slot and its config
    exporters,        \* the LangfuseExporter instances, each with its client
    enableTelemetryCalls, \* calls of genkit's enableTelemetry
    lastConstruct,    \* the last construction call and what it did
    host,             \* what the host hands over: a config, a batch, a callback
    lastExport,       \* the last export call and what it did
    pending,          \* async lifecycle calls awaiting the backend client
    lastSettled,      \* the last lifecycle call that settled
    probe             \* a span under a pure function, and the result

vars == <<provider, exporters, enableTelemetryCalls, lastConstruct, host,
          lastExport, pending, lastSettled, probe>>

(***************************************************************************)
(* JavaScript values                                                       *)
(***************************************************************************)
Undef == [t |-> "undef", s |-> <<>>, b |-> FALSE]
Str(x) == [t |-> "str", s |-> x, b |-> FALSE]
Bool(x) == [t |-> "bool", s |-> <<>>, b |-> x]

\* Decoded JSON adds numbers, null and objects; an object is the sequence of
\* its members [k, v] in insertion order.
Num(n) == [t |-> "num", n |-> n]
Null == [t |-> "null"]
Obj(members) == [t |-> "obj", f |-> members]

\* !v : undefined, null, '', 0 and false are falsy
Truthy(v) ==
    CASE v.t = "undef" -> FALSE
      [] v.t = "null" -> FALSE
      [] v.t = "str" -> v.s /= <<>>
      [] v.t = "bool" -> v.b
      [] v.t = "num" -> v.n /= 0
      [] v.t = "obj" -> TRUE

\* a || b
Or(a, b) == IF Truthy(a) THEN a ELSE b

\* v.key throws a TypeError on undefined and null
Nullish(v) == v.t \in {"undef", "null"}

\* v.key on any other value: the member's value (the last one of that key),
\* undefined when the object has no such member or v is a primitive
RECURSIVE Member(_, _)
Member(members, key) ==
    IF members = <<>> THEN Undef
    ELSE IF members[Len(members)].k = key THEN members[Len(members)].v
    ELSE Member(SubSeq(members, 1, Len(members) - 1), key)

Get(v, key) == IF v.t = "obj" THEN Member(v.f, key) ELSE Undef

\* path.includes('/seg/'): the segment occurs and another one follows it
PathIncludes(p, seg) == \E i \in 1..(Len(p) - 1) : p[i] = seg

\* name.includes('frag'), case-sensitive
NameIncludes(n, frag) == \E i \in 1..Len(n) : n[i] = frag

ZeroId == "0000000000000000"

\* Thrown values: id names the value, isError is `instanceof Error`, of is
\* the value an Error was built from by new Error(String(value)).
Thrown(id, isErr) == [id |-> id, isError |-> isErr, of |-> ""]
TypeError(what) == Thrown(what, TRUE)
NoError == Thrown("none", FALSE)

(***************************************************************************)
(* JSON.parse                                                              *)
(***************************************************************************)
\* The tokens of a JSON text: { } : , the quote mark, null, true, false,
\* decimal digits, and words (the content of a quoted string).
Quote == "\""

DigitValue(tok) ==
    CASE tok = "0" -> 0 [] tok = "1" -> 1 [] tok = "2" -> 2 [] tok = "3" -> 3
      [] tok = "4" -> 4 [] tok = "5" -> 5 [] tok = "6" -> 6 [] tok = "7" -> 7
      [] tok = "8" -> 8 [] tok = "9" -> 9 [] OTHER -> -1

IsDigit(tok) == DigitValue(tok) >= 0

IsWord(tok) ==
    /\ ~IsDigit(tok)
    /\ tok \notin {"{", "}", ":", ",", Quote}

Parsed(v, next) == [ok |-> TRUE, v |-> v, next |-> next]
SyntaxError == [ok |-> FALSE, v |-> Undef, next |-> 0]

\* a number: a run of digits, without a leading zero
RECURSIVE ParseDigits(_, _, _)
ParseDigits(toks, i, acc) ==
    IF i <= Len(toks) /\ IsDigit(toks[i])
    THEN ParseDigits(toks, i + 1, acc * 10 + DigitValue(toks[i]))
    ELSE Parsed(Num(acc), i)

ParseNumber(toks, i) ==
    IF toks[i] = "0" /\ i + 1 <= Len(toks) /\ IsDigit(toks[i + 1])
    THEN SyntaxError
    ELSE ParseDigits(toks, i, 0)

\* a quoted string: empty, or one word
ParseString(toks, i) ==
    IF i + 1 <= Len(toks) /\ toks[i + 1] = Quote
    THEN Parsed(Str(<<>>), i + 2)
    ELSE IF i + 2 <= Len(toks) /\ IsWord(toks[i + 1]) /\ toks[i + 2] = Quote
    THEN Parsed(Str(<<toks[i + 1]>>), i + 3)
    ELSE SyntaxError

\* a value that is no object
ParseScalar(toks, i) ==
    CASE toks[i] = "null" -> Parsed(Null, i + 1)
      [] toks[i] = "true" -> Parsed(Bool(TRUE), i + 1)
      [] toks[i] = "false" -> Parsed(Bool(FALSE), i + 1)
      [] IsDigit(toks[i]) -> ParseNumber(toks, i)
      [] toks[i] = Quote -> ParseString(toks, i)
      [] OTHER -> SyntaxError

\* The objects still open at a token: for each its members so far and the
\* key of the member being read
Frame(members, key) == [members |-> members, key |-> key]

Closed(frame, v) == Append(frame.members, [k |-> frame.key, v |-> v])

KeyOf(str) == IF str.s = <<>> THEN "" ELSE str.s[1]

\* One pass over the tokens from token i on.  mode is what is expected next:
\* a "value", a member's "key", or what comes "after" the value v.
RECURSIVE Scan(_, _, _, _, _)
RECURSIVE ScanScalar(_, _, _)
RECURSIVE ScanKey(_, _, _, _)

Scan(toks, i, open, mode, v) ==
    CASE mode = "after" /\ open = <<>> -> Parsed(v, i)
      [] i > Len(toks) -> SyntaxError
      [] mode = "value" /\ toks[i] = "{" ->
            IF i + 1 <= Len(toks) /\ toks[i + 1] = "}"
            THEN Scan(toks, i + 2, open, "after", Obj(<<>>))
            ELSE Scan(toks, i + 1, Append(open, Frame(<<>>, "")), "key", v)
      [] mode = "value" /\ toks[i] /= "{" ->
            ScanScalar(toks, open, ParseScalar(toks, i))
      [] mode = "key" /\ toks[i] = Quote ->
            ScanKey(toks, open, v, ParseString(toks, i))
      [] mode = "after" /\ open /= <<>> /\ toks[i] = "}" ->
            Scan(toks, i + 1, SubSeq(open, 1, Len(open) - 1), "after",
                 Obj(Closed(open[Len(open)], v)))
      [] mode = "after" /\ open /= <<>> /\ toks[i] = "," ->
            Scan(toks, i + 1,
                 [open EXCEPT ![Len(open)].members = Closed(open[Len(open)], v)],
                 "key", v)
      [] OTHER -> SyntaxError

\* on from the scalar r
ScanScalar(toks, open, r) ==
    IF r.ok THEN Scan(toks, r.next, open, "after", r.v) ELSE SyntaxError

\* on from the key r, which a colon must follow
ScanKey(toks, open, v, r) ==
    IF r.ok /\ r.next <= Len(toks) /\ toks[r.next] = ":"
    THEN Scan(toks, r.next + 1, [open EXCEPT ![Len(open)].key = KeyOf(r.v)],
              "value", v)
    ELSE SyntaxError

Complete(text, r) == IF r.ok /\ r.next = Len(text) + 1 THEN r ELSE SyntaxError

JSONparse(text) == Complete(text, Scan(text, 1, <<>>, "value", Undef))

(***************************************************************************)
(* Spans (ReadableSpan, read-only)                                         *)
(***************************************************************************)
\* attrs: the attribute bag (FALSE in hasAttrs: span.attributes is undefined)
\* ctx:   what span.spanContext() does
\* The bag holds the genkit:* attributes the extractor reads by name, and in
\* `other` every further entry [key, value] in insertion order, the key as
\* its pieces between colons ("genkit:metadata:a" is <<"genkit",
\* "metadata", "a">>); the keys of a bag are distinct.
MkSpan(nm, sid, tid, parent, typ, path, root, hasA, ctx) ==
    [name |-> nm, spanId |-> sid, traceId |-> tid, parentSpanId |-> parent,
     hasAttrs |-> hasA, ctx |-> ctx,
     attributes |-> [type |-> typ, path |-> path, isRoot |-> root,
                     name |-> Undef, input |-> Undef, output |-> Undef,
                     state |-> Undef, sessionId |-> Undef, userId |-> Undef,
                     other |-> <<>>]]

\* the span with some attributes of its bag set
WithAttributes(span, attrs) ==
    [span EXCEPT !.attributes = attrs @@ span.attributes]

(***************************************************************************)
(* SpanMetadataExtractor                                                   *)
(***************************************************************************)
\* key.startsWith('genkit:metadata:')
MetadataPrefix == <<"genkit", "metadata">>

StartsWith(key, prefix) ==
    /\ Len(key) > Len(prefix)
    /\ SubSeq(key, 1, Len(prefix)) = prefix

\* key.replace('genkit:metadata:', ''): the first occurrence is removed
Occurrences(key, prefix) ==
    {i \in 1..(Len(key) - Len(prefix)) :
        SubSeq(key, i, i + Len(prefix) - 1) = prefix}

Least(S) == CHOOSE i \in S : \A j \in S : i <= j

Replace(key, prefix) ==
    IF Occurrences(key, prefix) = {} THEN key
    ELSE LET i == Least(Occurrences(key, prefix))
         IN  SubSeq(key, 1, i - 1) \o SubSeq(key, i + Len(prefix), Len(key))

\* every occurrence is removed
RECURSIVE ReplaceAll(_, _)
ReplaceAll(key, prefix) ==
    IF Occurrences(key, prefix) = {} THEN key
    ELSE ReplaceAll(Replace(key, prefix), prefix)

\* metadata[k] = v
Assign(members, k, v) ==
    IF \E i \in 1..Len(members) : members[i].k = k
    THEN [i \in 1..Len(members) |->
             IF members[i].k = k THEN [k |-> k, v |-> v] ELSE members[i]]
    ELSE Append(members, [k |-> k, v |-> v])

\* faulty variant of extractCustomMetadata: every occurrence of the prefix
\* is cut out of the key
RECURSIVE extractCustomMetadataAll(_)
extractCustomMetadataAll(entries) ==
    IF entries = <<>> THEN <<>>
    ELSE LET last == entries[Len(entries)]
             metadata == extractCustomMetadataAll(
                             SubSeq(entries, 1, Len(entries) - 1))
         IN  IF StartsWith(last.key, MetadataPrefix)
             THEN Assign(metadata, ReplaceAll(last.key, MetadataPrefix),
                         last.value)
             ELSE metadata

\* extractCustomMetadata: the loop over Object.entries(attributes)
RECURSIVE extractCustomMetadata(_)
extractCustomMetadata(entries) ==
    IF entries = <<>> THEN <<>>
    ELSE LET last == entries[Len(entries)]
             metadata == extractCustomMetadata(
                             SubSeq(entries, 1, Len(entries) - 1))
         IN  IF StartsWith(last.key, MetadataPrefix)
             THEN Assign(metadata, Replace(last.key, MetadataPrefix),
                         last.value)
             ELSE metadata

\* extractMetadata: reading a key of an undefined bag throws a TypeError
extractMetadata(span) ==
    [threw |-> ~span.hasAttrs,
     error |-> IF span.hasAttrs THEN NoError ELSE TypeError("attributes"),
     name |-> span.attributes.name,
     spanType |-> span.attributes.type,
     path |-> span.attributes.path,
     input |-> span.attributes.input,
     output |-> span.attributes.output,
     state |-> span.attributes.state,
     isRoot |-> \/ span.attributes.isRoot = Str(<<"true">>)
                \/ span.attributes.isRoot = Bool(TRUE),
     sessionId |-> span.attributes.sessionId,
     userId |-> span.attributes.userId,
     metadata |-> extractCustomMetadata(span.attributes.other)]

isModelSpan(span) ==
    \/ span.attributes.type = Str(<<"model">>)
    \/ /\ Truthy(span.attributes.path)
       /\ PathIncludes(span.attributes.path.s, "model")

\* a + b on numbers
Plus(a, b) == Num(a.n + b.n)

\* What extractUsage gives back: null, or a TokenUsage
TokenUsage(i, o, total) ==
    [t |-> "usage", inputTokens |-> i, outputTokens |-> o, totalTokens |-> total]

Returned(v) == [threw |-> FALSE, error |-> NoError, v |-> v]

\* faulty variant of UsageFrom: totalTokens is always computed
UsageFromSum(usage) ==
    IF Truthy(usage)
    THEN Returned(TokenUsage(
             Or(Get(usage, "inputTokens"), Num(0)),
             Or(Get(usage, "outputTokens"), Num(0)),
             Plus(Or(Get(usage, "inputTokens"), Num(0)),
                  Or(Get(usage, "outputTokens"), Num(0)))))
    ELSE Returned(Null)

\* if (parsed.usage) return { inputTokens: parsed.usage.inputTokens || 0,
\* ... }; otherwise extractUsage runs on to its return null
UsageFrom(usage) ==
    IF Truthy(usage)
    THEN Returned(TokenUsage(
             Or(Get(usage, "inputTokens"), Num(0)),
             Or(Get(usage, "outputTokens"), Num(0)),
             Or(Get(usage, "totalTokens"),
                Plus(Or(Get(usage, "inputTokens"), Num(0)),
                     Or(Get(usage, "outputTokens"), Num(0))))))
    ELSE Returned(Null)

\* faulty variant of TryUsage: the TypeError of null.usage is not caught
TryUsageNullThrows(parsed) ==
    IF ~parsed.ok THEN Returned(Null)
    ELSE IF Nullish(parsed.v)
    THEN [threw |-> TRUE, error |-> TypeError("usage"), v |-> Null]
    ELSE UsageFrom(Get(parsed.v, "usage"))

\* the try block of extractUsage: its catch ignores the SyntaxError of
\* JSON.parse and the TypeError of parsed.usage on null
TryUsage(parsed) ==
    IF ~parsed.ok THEN Returned(Null)
    ELSE IF Nullish(parsed.v) THEN Returned(Null)
    ELSE UsageFrom(Get(parsed.v, "usage"))

\* faulty variant of extractUsage: the counts are returned as they are
extractUsageRaw(span) ==
    IF ~span.hasAttrs
    THEN [threw |-> TRUE, error |-> TypeError("attributes"), v |-> Null]
    ELSE IF ~Truthy(span.attributes.output) THEN Returned(Null)
    ELSE LET parsed == JSONparse(span.attributes.output.s)
         IN  IF ~parsed.ok \/ Nullish(parsed.v) THEN Returned(Null)
             ELSE IF ~Truthy(Get(parsed.v, "usage")) THEN Returned(Null)
             ELSE Returned(TokenUsage(
                      Get(Get(parsed.v, "usage"), "inputTokens"),
                      Get(Get(parsed.v, "usage"), "outputTokens"),
                      Get(Get(parsed.v, "usage"), "totalTokens")))

\* extractUsage: reading a key of an undefined bag throws a TypeError
extractUsage(span) ==
    IF ~span.hasAttrs
    THEN [threw |-> TRUE, error |-> TypeError("attributes"), v |-> Null]
    ELSE IF ~Truthy(span.attributes.output) THEN Returned(Null)
    ELSE TryUsage(JSONparse(span.attributes.output.s))

\* faulty variant of isRootSpan: the boolean true counts as well
isRootSpanLoose(span) ==
    IF ~span.hasAttrs
    THEN [threw |-> TRUE, error |-> TypeError("attributes"), v |-> Null]
    ELSE Returned(Bool(\/ span.attributes.isRoot = Str(<<"true">>)
                       \/ span.attributes.isRoot = Bool(TRUE)))

\* isRootSpan: attributes['genkit:isRoot'] === 'true'
isRootSpan(span) ==
    IF ~span.hasAttrs
    THEN [threw |-> TRUE, error |-> TypeError("attributes"), v |-> Null]
    ELSE Returned(Bool(span.attributes.isRoot = Str(<<"true">>)))

(***************************************************************************)
(* LangfuseExporter.determineSpanType                                      *)
(***************************************************************************)
\* path?.includes('/seg/')
OptPathIncludes(path, seg) == path.t = "str" /\ PathIncludes(path.s, seg)

\* faulty variants of determineSpanType
determineSpanTypeRootFirst(span, metadata) ==
    IF \/ metadata.isRoot
       \/ metadata.spanType = Str(<<"flow">>)
       \/ OptPathIncludes(metadata.path, "flow")
       \/ ~Truthy(span.parentSpanId)
       \/ span.parentSpanId = Str(<<ZeroId>>)
    THEN "trace"
    ELSE IF \/ metadata.spanType = Str(<<"model">>)
            \/ OptPathIncludes(metadata.path, "model")
            \/ NameIncludes(span.name, "generate")
            \/ NameIncludes(span.name, "model")
    THEN "generation"
    ELSE "span"

determineSpanTypeNoZero(span, metadata) ==
    IF \/ metadata.spanType = Str(<<"model">>)
       \/ OptPathIncludes(metadata.path, "model")
       \/ NameIncludes(span.name, "generate")
       \/ NameIncludes(span.name, "model")
    THEN "generation"
    ELSE IF \/ metadata.isRoot
            \/ metadata.spanType = Str(<<"flow">>)
            \/ OptPathIncludes(metadata.path, "flow")
            \/ ~Truthy(span.parentSpanId)
    THEN "trace"
    ELSE "span"

determineSpanTypeToolTrace(span, metadata) ==
    IF \/ metadata.spanType = Str(<<"model">>)
       \/ OptPathIncludes(metadata.path, "model")
       \/ NameIncludes(span.name, "generate")
       \/ NameIncludes(span.name, "model")
    THEN "generation"
    ELSE IF \/ metadata.spanType = Str(<<"tool">>)
            \/ OptPathIncludes(metadata.path, "tool")
            \/ NameIncludes(span.name, "tool")
            \/ NameIncludes(span.name, "Tool")
    THEN "span"
    ELSE IF \/ metadata.isRoot
            \/ metadata.spanType = Str(<<"flow">>)
            \/ OptPathIncludes(metadata.path, "flow")
            \/ ~Truthy(span.parentSpanId)
            \/ span.parentSpanId = Str(<<ZeroId>>)
    THEN "trace"
    ELSE "span"

determineSpanType(span, metadata) ==
    LET spanType == metadata.spanType
        path == metadata.path
        name == span.name
    IN  IF \/ spanType = Str(<<"model">>)
           \/ OptPathIncludes(path, "model")
           \/ NameIncludes(name, "generate")
           \/ NameIncludes(name, "model")
        THEN "generation"
        ELSE IF \/ metadata.isRoot
                \/ spanType = Str(<<"flow">>)
                \/ OptPathIncludes(path, "flow")
                \/ ~Truthy(span.parentSpanId)
                \/ span.parentSpanId = Str(<<ZeroId>>)
        THEN "trace"
        ELSE IF \/ spanType = Str(<<"tool">>)
                \/ OptPathIncludes(path, "tool")
                \/ NameIncludes(name, "tool")
                \/ NameIncludes(name, "Tool")
        THEN "span"
        ELSE "span"

(***************************************************************************)
(* LangfuseExporter: payloads and the backend client's submission calls    *)
(***************************************************************************)
\* What one step of span processing did: whether it threw, and the
\* submission calls the backend client accepted (returned from).
Step(threw, error, stage, kind, accepted) ==
    [threw |-> threw, error |-> error, stage |-> stage, kind |-> kind,
     accepted |-> accepted,
     \* the calls of config.calculateCost made for the span
     costCalls |-> <<>>]

BackendError == Thrown("backend", TRUE)

\* langfuse.generation / trace / span (data): the client call either
\* returns, and the record is accepted, or throws.
Submit(call, data, kind, clientThrows) ==
    IF clientThrows
    THEN Step(TRUE, BackendError, "submit", kind, <<>>)
    ELSE Step(FALSE, NoError, "none", kind, <<[call |-> call] @@ data>>)

\* span.spanContext() of a span whose context accessor fails
ContextThrows(span) == span.ctx = "throws"

\* A payload field that was never assigned
Omitted == [t |-> "omitted"]

Unknown == Str(<<"unknown">>)

\* path.match(/\/model\/([^\/]+)\/([^\/]+)/): the leftmost "model" segment
\* that two non-empty segments follow (0: no match)
ModelMatches(p) ==
    {i \in 1..(Len(p) - 2) :
        p[i] = "model" /\ p[i + 1] /= "" /\ p[i + 2] /= ""}

\* path.match(/\/model\/([^\/]+)\//): the leftmost "model" segment that a
\* non-empty segment and a further slash follow
ProviderMatches(p) ==
    {i \in 1..(Len(p) - 2) : p[i] = "model" /\ p[i + 1] /= ""}

extractModelFromPath(path) ==
    IF ~Truthy(path) THEN Unknown
    ELSE IF ModelMatches(path.s) = {} THEN Unknown
    ELSE Str(<<path.s[Least(ModelMatches(path.s)) + 2]>>)

extractProviderFromPath(path) ==
    IF ~Truthy(path) THEN Unknown
    ELSE IF ProviderMatches(path.s) = {} THEN Unknown
    ELSE Str(<<path.s[Least(ProviderMatches(path.s)) + 1]>>)

\* faulty variant of Decoded: a text that does not parse is dropped
DecodedOrUndefined(jsonString, r) == IF r.ok THEN r.v ELSE Undef

\* try { return JSON.parse(jsonString) } catch { return jsonString }
Decoded(jsonString, r) == IF r.ok THEN r.v ELSE jsonString

\* parseJSON: the decoded value, or the argument itself when it is falsy,
\* not a string, or JSON.parse throws
parseJSON(jsonString) ==
    IF ~Truthy(jsonString) \/ jsonString.t /= "str" THEN jsonString
    ELSE Decoded(jsonString, JSONparse(jsonString.s))

\* config.calculateCost(modelName, usage): what the host's function does.
\* "returns": a number made from its arguments; "throws": it throws.
CostOf(modelName, usage) ==
    Num(usage.inputTokens.n + 2 * usage.outputTokens.n)

\* span.parentSpanId && span.parentSpanId !== '0000000000000000'
HasParent(span) ==
    Truthy(span.parentSpanId) /\ span.parentSpanId /= Str(<<ZeroId>>)

\* faulty variant of UsageRecord: missing counts become 0
UsageRecordDefaults(usage) ==
    [t |-> "usage", input |-> Or(Get(usage, "inputTokens"), Num(0)),
     output |-> Or(Get(usage, "outputTokens"), Num(0)),
     total |-> Or(Get(usage, "totalTokens"), Num(0))]

\* usage: { input: output.usage.inputTokens, ... }
UsageRecord(usage) ==
    [t |-> "usage", input |-> Get(usage, "inputTokens"),
     output |-> Get(usage, "outputTokens"),
     total |-> Get(usage, "totalTokens")]

\* The generation payload before the cost is added, from the decoded input
\* and output
GenerationData(span, metadata, input, output) ==
    [id |-> span.spanId, traceId |-> span.traceId,
     name |-> span.name,
     model |-> Or(metadata.name, extractModelFromPath(metadata.path)),
     input |-> input,
     output |-> output,
     metadata |-> [spanType |-> metadata.spanType,
                   path |-> metadata.path,
                   state |-> metadata.state,
                   provider |-> extractProviderFromPath(metadata.path),
                   parentSpanId |-> span.parentSpanId],
     parentObservationId |->
         IF HasParent(span) THEN span.parentSpanId ELSE Omitted,
     \* if (output && output.usage)
     usage |-> IF Truthy(output) /\ Truthy(Get(output, "usage"))
               THEN UsageRecord(Get(output, "usage")) ELSE Omitted,
     totalCost |-> Omitted,
     sessionId |-> IF Truthy(metadata.sessionId)
                   THEN metadata.sessionId ELSE Omitted,
     userId |-> IF Truthy(metadata.userId)
                THEN metadata.userId ELSE Omitted]

\* the TokenUsage handed to calculateCost
CostUsage(usage) ==
    [inputTokens |-> Or(Get(usage, "inputTokens"), Num(0)),
     outputTokens |-> Or(Get(usage, "outputTokens"), Num(0)),
     totalTokens |-> Or(Get(usage, "totalTokens"), Num(0))]

CostError == Thrown("calculateCost", TRUE)

\* the call config.calculateCost(modelName, {inputTokens: ... || 0, ...})
CostCall(data) ==
    [modelName |-> data.model, usage |-> CostUsage(Get(data.output, "usage"))]

\* faulty variant of WithCost: calculateCost is called for every
\* generation, with or without usage
WithCostAlways(config, data, clientThrows) ==
    [Submit("generation",
            [data EXCEPT !.totalCost =
                IF config.calculateCost = "returns"
                THEN CostOf(data.model, CostUsage(Get(data.output, "usage")))
                ELSE Omitted],
            "generation", clientThrows)
     EXCEPT !.costCalls = IF config.calculateCost /= "none"
                          THEN <<CostCall(data)>> ELSE <<>>]

\* faulty variant of WithCost: an error of calculateCost is thrown on
WithCostThrown(config, data, clientThrows) ==
    IF data.usage /= Omitted /\ config.calculateCost = "throws"
    THEN Step(TRUE, CostError, "build", "generation", <<>>)
    ELSE Submit("generation",
            [data EXCEPT !.totalCost =
                IF data.usage /= Omitted /\ config.calculateCost = "returns"
                THEN CostOf(data.model, CostUsage(Get(data.output, "usage")))
                ELSE Omitted],
            "generation", clientThrows)

\* The cost and the submission: calculateCost is called only when the
\* payload has a usage record, inside a try block whose catch only logs
WithCost(config, data, clientThrows) ==
    [Submit("generation",
            [data EXCEPT !.totalCost =
                IF data.usage /= Omitted /\ config.calculateCost = "returns"
                THEN CostOf(data.model, CostUsage(Get(data.output, "usage")))
                ELSE Omitted],
            "generation", clientThrows)
     EXCEPT !.costCalls =
         IF data.usage /= Omitted /\ config.calculateCost /= "none"
         THEN <<CostCall(data)>> ELSE <<>>]

createGeneration(config, span, metadata, clientThrows) ==
    IF ContextThrows(span)
    THEN Step(TRUE, TypeError("spanContext"), "build", "generation", <<>>)
    ELSE WithCost(config,
                  GenerationData(span, metadata, parseJSON(metadata.input),
                                 parseJSON(metadata.output)),
                  clientThrows)

\* the trace payload has no traceId, model, usage, cost or
\* parentObservationId field
createTrace(config, span, metadata, clientThrows) ==
    IF ContextThrows(span)
    THEN Step(TRUE, TypeError("spanContext"), "build", "trace", <<>>)
    ELSE Submit("trace",
                [id |-> span.traceId, traceId |-> Omitted,
                 name |-> span.name,
                 model |-> Omitted,
                 input |-> parseJSON(metadata.input),
                 output |-> parseJSON(metadata.output),
                 metadata |-> [spanType |-> metadata.spanType,
                               path |-> metadata.path,
                               state |-> metadata.state,
                               provider |-> Omitted,
                               parentSpanId |-> Omitted],
                 parentObservationId |-> Omitted,
                 usage |-> Omitted,
                 totalCost |-> Omitted,
                 sessionId |-> IF Truthy(metadata.sessionId)
                               THEN metadata.sessionId ELSE Omitted,
                 userId |-> IF Truthy(metadata.userId)
                            THEN metadata.userId ELSE Omitted],
                "trace", clientThrows)

\* the span payload has no model, usage, cost, sessionId or userId field
createSpan(config, span, metadata, clientThrows) ==
    IF ContextThrows(span)
    THEN Step(TRUE, TypeError("spanContext"), "build", "span", <<>>)
    ELSE Submit("span",
                [id |-> span.spanId, traceId |-> span.traceId,
                 name |-> span.name,
                 model |-> Omitted,
                 input |-> parseJSON(metadata.input),
                 output |-> parseJSON(metadata.output),
                 metadata |-> [spanType |-> metadata.spanType,
                               path |-> metadata.path,
                               state |-> metadata.state,
                               provider |-> Omitted,
                               parentSpanId |-> span.parentSpanId],
                 parentObservationId |->
                     IF HasParent(span) THEN span.parentSpanId ELSE Omitted,
                 usage |-> Omitted,
                 totalCost |-> Omitted,
                 sessionId |-> Omitted, userId |-> Omitted],
                "span", clientThrows)

\* faulty variant of Dispatch: a trace goes out through the span call
DispatchTraceAsSpan(config, spanType, span, metadata, clientThrows) ==
    CASE spanType = "generation" ->
           createGeneration(config, span, metadata, clientThrows)
      [] spanType = "trace" -> createSpan(config, span, metadata, clientThrows)
      [] spanType = "span" -> createSpan(config, span, metadata, clientThrows)
      [] OTHER -> Step(FALSE, NoError, "none", spanType, <<>>)

\* the switch of processSpan; its default branch submits nothing
Dispatch(config, spanType, span, metadata, clientThrows) ==
    CASE spanType = "generation" ->
           createGeneration(config, span, metadata, clientThrows)
      [] spanType = "trace" -> createTrace(config, span, metadata, clientThrows)
      [] spanType = "span" -> createSpan(config, span, metadata, clientThrows)
      [] OTHER -> Step(FALSE, NoError, "none", spanType, <<>>)

\* processSpan from the extracted metadata and the span type on
Process(config, span, metadata, spanType, clientThrows) ==
    IF config.debug /\ ContextThrows(span)
    THEN Step(TRUE, TypeError("spanContext"), "log", spanType, <<>>)
    ELSE Dispatch(config, spanType, span, metadata, clientThrows)

\* processSpan from the extracted metadata on
ProcessFrom(config, span, metadata, clientThrows) ==
    IF metadata.threw
    THEN Step(TRUE, metadata.error, "extract", "none", <<>>)
    ELSE Process(config, span, metadata, determineSpanType(span, metadata),
                 clientThrows)

processSpan(config, span, clientThrows) ==
    ProcessFrom(config, span, extractMetadata(span), clientThrows)

(***************************************************************************)
(* LangfuseExporter.export                                                 *)
(***************************************************************************)
\* A batch is a sequence of items: a span, and whether the backend client
\* throws on the submission call made for it.

\* new Error(String(error)) unless error instanceof Error
\* faulty variant of ToError: every thrown value is wrapped
ToErrorAlways(error) == [id |-> "Error", isError |-> TRUE, of |-> error.id]

ToError(error) ==
    IF error.isError THEN error
    ELSE [id |-> "Error", isError |-> TRUE, of |-> error.id]

\* What the host's resultCallback does when invoked
CallbackThrows(cb) == cb /= "returns"
CallbackError(cb) == Thrown("callback", cb = "throwsError")

\* The per-span loop, from span i on.  acc.escaped is the exception that
\* left the per-span try/catch (thrown by the catch block's debug logging).
\* faulty variant of newExporter: the connection test runs without debug
newExporterAlwaysTests(config) ==
    [config |-> config, exportCount |-> 0, calls |-> 0,
     client |-> [generation |-> 0, trace |-> 0, span |-> 0,
                 log |-> <<[call |-> "trace", id |-> "test-connection",
                            name |-> <<"Connection", "Test">>]>>,
                 testTrace |-> 1, flushAsync |-> 1, shutdownAsync |-> 0]]

\* faulty variant of Receive: the new records go ahead of the earlier ones
ReceiveFirst(log, records) == records \o log

\* The backend client takes the records in the order of the calls of
\* langfuse.generation / trace / span
Receive(log, records) == log \o records

\* faulty variant of exportLoop: the first failing span ends the loop
RECURSIVE exportLoopAbort(_, _, _, _)
exportLoopAbort(config, batch, i, acc) ==
    IF i > Len(batch) THEN acc
    ELSE LET r == processSpan(config, batch[i].span, batch[i].clientThrows)
         IN  IF ~r.threw
             THEN exportLoopAbort(config, batch, i + 1,
                    [acc EXCEPT !.successCount = @ + 1,
                                !.steps = Append(@, r),
                                !.received = Receive(@, r.accepted)])
             ELSE [acc EXCEPT !.errorCount = @ + 1, !.steps = Append(@, r)]

RECURSIVE exportLoop(_, _, _, _)
RECURSIVE LoopStep(_, _, _, _, _)

exportLoop(config, batch, i, acc) ==
    IF i > Len(batch) THEN acc
    ELSE LoopStep(config, batch, i, acc,
                  processSpan(config, batch[i].span, batch[i].clientThrows))

\* the try/catch around processSpan, r being what processSpan did, and the
\* rest of the loop
LoopStep(config, batch, i, acc, r) ==
    IF ~r.threw
    THEN exportLoop(config, batch, i + 1,
           [acc EXCEPT !.successCount = @ + 1, !.steps = Append(@, r),
                       !.received = Receive(@, r.accepted)])
    ELSE IF config.debug /\ ContextThrows(batch[i].span)
    THEN [acc EXCEPT !.errorCount = @ + 1,
                     !.steps = Append(@, r),
                     !.escaped = TypeError("spanContext")]
    ELSE exportLoop(config, batch, i + 1,
           [acc EXCEPT !.errorCount = @ + 1, !.steps = Append(@, r)])

LoopStart == [successCount |-> 0, errorCount |-> 0, steps |-> <<>>,
              received |-> <<>>, escaped |-> NoError]

Result(code, error) == [code |-> code, error |-> error]

\* export(spans, resultCallback), as a record of what the call did:
\*   entered    the outer try block was reached
\*   steps      what processSpan did for each span it was invoked on
\*   received   the records the backend client was given, in call order
\*   escaped    the exception raised inside the outer try block and outside
\*              the per-span try/catch (NoError: none)
\*   callbacks  the results resultCallback was invoked with, in order
\*   thrown     the exception export itself threw to its caller
\*   flushed    the debug flushAsync() after the loop was called
\* cb is what resultCallback does; flushThrows: the client's flushAsync()
\* throws instead of returning a promise.
ExportBase(config, batch, cb, flushThrows) ==
    [batch |-> batch, cb |-> cb, debug |-> config.debug,
     flushThrows |-> flushThrows,
     entered |-> FALSE, steps |-> <<>>, received |-> <<>>,
     successCount |-> 0,
     errorCount |-> 0, escaped |-> NoError, callbacks |-> <<>>,
     thrown |-> NoError, flushed |-> FALSE]

\* the outer try block and its catch, loop being what the per-span loop did
ExportTry(config, batch, cb, flushThrows, loop) ==
    LET base == ExportBase(config, batch, cb, flushThrows)
        done == [base EXCEPT !.entered = TRUE, !.steps = loop.steps,
                             !.received = loop.received,
                             !.successCount = loop.successCount,
                             !.errorCount = loop.errorCount]
        flushed == config.debug /\ loop.successCount > 0
        afterLoop == [done EXCEPT !.flushed = flushed]
        \* the catch block of the outer try
        failed(rec, error) ==
            [rec EXCEPT !.escaped = error,
                        !.callbacks = Append(@, Result("FAILED", ToError(error))),
                        !.thrown = IF CallbackThrows(cb)
                                   THEN CallbackError(cb) ELSE NoError]
        succeeded(rec) ==
            [rec EXCEPT !.callbacks = <<Result("SUCCESS", NoError)>>]
    IN  IF loop.escaped /= NoError
        THEN failed(done, loop.escaped)
        ELSE IF flushed /\ flushThrows
        THEN failed(afterLoop, Thrown("flushAsync", TRUE))
        ELSE IF CallbackThrows(cb)
        THEN failed(succeeded(afterLoop), CallbackError(cb))
        ELSE succeeded(afterLoop)

\* the debug logging ahead of the try block reads spanContext() of every span
export(config, batch, cb, flushThrows) ==
    IF config.debug /\ \E i \in 1..Len(batch) : ContextThrows(batch[i].span)
    THEN [ExportBase(config, batch, cb, flushThrows) EXCEPT
             !.thrown = TypeError("spanContext")]
    ELSE ExportTry(config, batch, cb, flushThrows,
                   exportLoop(config, batch, 1, LoopStart))

\* faulty variant of exportOn: an exporter that was shut down reports
\* FAILED and submits nothing
exportUnlessShutdown(exporter, batch, cb, flushThrows) ==
    IF exporter.client.shutdownAsync > 0
    THEN [ExportBase(exporter.config, batch, cb, flushThrows) EXCEPT
             !.entered = TRUE,
             !.callbacks = <<Result("FAILED", Thrown("shutdown", TRUE))>>]
    ELSE export(exporter.config, batch, cb, flushThrows)

\* exporter.export(spans, resultCallback): of the exporter's fields the
\* method reads this.config and this.langfuse only
exportOn(exporter, batch, cb, flushThrows) ==
    export(exporter.config, batch, cb, flushThrows)

(***************************************************************************)
(* LangfuseExporter: construction, shutdown, forceFlush                    *)
(***************************************************************************)
\* new LangfuseExporter(config): a fresh backend client; in debug mode the
\* constructor runs testConnection, which submits a test trace and calls
\* flushAsync.  client counts the calls the backend client has received.
\* testConnection: the trace the constructor submits in debug mode (its id
\* ends in the time of the call)
TestTrace ==
    [call |-> "trace", id |-> "test-connection", name |-> <<"Connection", "Test">>]

newExporter(config) ==
    [config |-> config, exportCount |-> 0, calls |-> 0,
     client |-> [generation |-> 0, trace |-> 0, span |-> 0,
                 log |-> IF config.debug THEN <<TestTrace>> ELSE <<>>,
                 testTrace |-> IF config.debug THEN 1 ELSE 0,
                 flushAsync |-> IF config.debug THEN 1 ELSE 0,
                 shutdownAsync |-> 0]]

\* How a promise settled
Resolved == [ok |-> TRUE, error |-> NoError]
Rejected(error) == [ok |-> FALSE, error |-> error]

\* faulty variants of the catch blocks of shutdown and forceFlush
rethrowWrapped(backend) ==
    IF backend.ok THEN backend
    ELSE Rejected([id |-> "Error", isError |-> TRUE, of |-> backend.error.id])

rethrowSwallowed(backend) == Resolved

\* shutdown: await langfuse.shutdownAsync(); catch (error) { throw error }
shutdownOutcome(backend) == backend

\* faulty variant of debugFlushOutcome: the rejection is passed on
debugFlushOutcomeRejects(backend) == backend

\* this.langfuse.flushAsync().catch(error => console.error(...)): the
\* promise of the debug flush after an export, whose rejection is logged
debugFlushOutcome(backend) == Resolved

\* forceFlush: await langfuse.flushAsync(); catch (error) { throw error }
forceFlushOutcome(backend) == backend

(***************************************************************************)
(* LangfuseTelemetryProvider                                               *)
(***************************************************************************)
SecretKeyRequired == "Langfuse secret key is required"
PublicKeyRequired == "Langfuse public key is required"

\* faulty variants of validateConfig
validateConfigPublicFirst(config) ==
    IF ~Truthy(config.publicKey)
    THEN [error |-> PublicKeyRequired, config |-> config]
    ELSE IF ~Truthy(config.secretKey)
    THEN [error |-> SecretKeyRequired, config |-> config]
    ELSE [error |-> "", config |-> [config EXCEPT !.debug = Bool(Truthy(@))]]

\* validateConfig: the error it throws ("" when it returns) and the config
\* with its defaults set
validateConfig(config) ==
    IF ~Truthy(config.secretKey)
    THEN [error |-> SecretKeyRequired, config |-> config]
    ELSE IF ~Truthy(config.publicKey)
    THEN [error |-> PublicKeyRequired, config |-> config]
    ELSE [error |-> "", config |-> [config EXCEPT !.debug = Bool(Truthy(@))]]

\* The exporter's view of the config
ExporterConfig(config) ==
    [debug |-> Truthy(config.debug), calculateCost |-> config.calculateCost,
     spanFilter |-> config.spanFilter]

(***************************************************************************)
(* Bounds and inputs                                                       *)
(***************************************************************************)
MaxBatch == 3       \* spans in one batch
MaxExports == 2     \* export calls on one exporter
MaxExporters == 2   \* exporters one provider creates
MaxCalls == 2       \* shutdown / forceFlush calls in one run
MaxEntries == 2     \* further entries of an attribute bag

\* Configs handed to the provider
Keys(k) == {Undef, Str(<<>>), Str(<<k>>)}
Configs ==
    {[secretKey |-> sk, publicKey |-> pk, debug |-> d,
      calculateCost |-> "none", spanFilter |-> "none"] :
        sk \in Keys("sk-test"), pk \in Keys("pk-test"),
        d \in {Undef, Bool(TRUE)}}

\* Spans of the export runs: a model call, a root flow, a tool call, a span
\* without an attribute bag and a span whose spanContext() throws
ModelCall == MkSpan(<<"gpt">>, "s1", "t1", Str(<<"s2">>), Str(<<"model">>),
                    Str(<<"model", "openai", "gpt">>), Undef, TRUE, "ok")
RootFlow == MkSpan(<<"my", "Flow">>, "s2", "t1", Undef, Str(<<"flow">>),
                   Str(<<"flow", "f">>), Str(<<"true">>), TRUE, "ok")
ToolCall == MkSpan(<<"tool", "Call">>, "s3", "t1", Str(<<"s2">>),
                   Str(<<"tool">>), Str(<<"flow", "f", "tool", "t">>),
                   Undef, TRUE, "ok")
\* a flow called from the root flow, in the same trace
NestedFlow == MkSpan(<<"sub", "Flow">>, "s6", "t1", Str(<<"s2">>),
                     Str(<<"flow">>), Str(<<"flow", "f", "flow", "g">>),
                     Undef, TRUE, "ok")
NoAttributes == MkSpan(<<"bare">>, "s4", "t1", Str(<<"s2">>), Undef, Undef,
                       Undef, FALSE, "ok")
NoContext == MkSpan(<<"util">>, "s5", "t1", Str(<<"s2">>), Undef, Undef,
                    Undef, TRUE, "throws")

Item(span, clientThrows) == [span |-> span, clientThrows |-> clientThrows]
SampleItems ==
    {Item(s, FALSE) : s \in {ModelCall, RootFlow, NestedFlow, ToolCall,
                              NoAttributes, NoContext}}
    \cup {Item(ToolCall, TRUE)}

Batches == UNION {[1..n -> SampleItems] : n \in 0..MaxBatch}
Callbacks == {"returns", "throwsError", "throwsValue"}

BackendOutcomes ==
    {Resolved, Rejected(Thrown("backend", TRUE)),
     Rejected(Thrown("backendValue", FALSE))}

\* Spans of the classification runs: every combination of type hint, path,
\* name, root flag and parent id
ClassifySpans ==
    {MkSpan(nm, "s1", "t1", parent, typ, path, root, TRUE, "ok") :
        nm \in {<<"my", "Flow">>, <<"generate", "Text">>, <<"my", "model">>,
                <<"tool", "Call">>, <<"My", "Tool">>, <<"Generate", "Model">>},
        parent \in {Undef, Str(<<>>), Str(<<ZeroId>>), Str(<<"s2">>)},
        typ \in {Undef, Str(<<"model">>), Str(<<"flow">>), Str(<<"tool">>),
                 Str(<<"action">>)},
        path \in {Undef, Str(<<>>), Str(<<"model", "openai", "gpt">>),
                  Str(<<"flow", "f">>), Str(<<"flow", "f", "tool", "t">>),
                  Str(<<"flow", "f", "model", "openai", "gpt">>),
                  Str(<<"util", "model">>), Str(<<"util", "x">>)},
        root \in {Undef, Str(<<"true">>), Str(<<"false">>), Bool(TRUE),
                  Bool(FALSE)}}

\* JSON texts, as JSON.stringify writes them
RECURSIVE Digits(_)
Digits(n) ==
    LET d == CASE n % 10 = 0 -> "0" [] n % 10 = 1 -> "1" [] n % 10 = 2 -> "2"
               [] n % 10 = 3 -> "3" [] n % 10 = 4 -> "4" [] n % 10 = 5 -> "5"
               [] n % 10 = 6 -> "6" [] n % 10 = 7 -> "7" [] n % 10 = 8 -> "8"
               [] n % 10 = 9 -> "9"
    IN  IF n < 10 THEN <<d>> ELSE Append(Digits(n \div 10), d)

StrText(w) == <<Quote, w, Quote>>
MemberText(k, text) == StrText(k) \o <<":">> \o text

RECURSIVE Join(_)
Join(members) ==
    IF members = <<>> THEN <<>>
    ELSE IF Len(members) = 1 THEN members[1]
    ELSE members[1] \o <<",">> \o Join(Tail(members))

ObjText(members) == <<"{">> \o Join(members) \o <<"}">>

\* a token count of a usage object: a number, or (below 0) no such member
OptMember(k, n) == IF n < 0 THEN <<>> ELSE <<MemberText(k, Digits(n))>>

UsageText(i, o, total) ==
    ObjText(OptMember("inputTokens", i) \o OptMember("outputTokens", o)
            \o OptMember("totalTokens", total))

UsageTexts ==
    {UsageText(i, o, total) :
        i \in {-1, 0, 10}, o \in {-1, 0, 5}, total \in {-1, 0, 15, 20}}
    \cup {ObjText(<<MemberText("inputTokens", <<"null">>),
                    MemberText("outputTokens", Digits(5))>>)}

\* genkit:output values: missing, empty, not JSON, JSON that is no object,
\* objects without usage, with a usage that is no object, with a usage object
OutputTexts ==
    {Undef, Str(<<>>), Str(<<"whole">>),
     Str(<<"{", Quote, "usage", Quote, ":">>),
     Str(<<"0", "7">>),
     Str(<<"null">>), Str(Digits(7)), Str(StrText("done")), Str(<<"true">>),
     Str(ObjText(<<>>)),
     Str(ObjText(<<MemberText("text", StrText("hi"))>>)),
     Str(ObjText(<<MemberText("usage", <<"null">>)>>)),
     Str(ObjText(<<MemberText("usage", Digits(0))>>)),
     Str(ObjText(<<MemberText("usage", Digits(7))>>)),
     Str(ObjText(<<MemberText("usage", StrText("many"))>>))}
    \cup {Str(ObjText(<<MemberText("text", StrText("hi")),
                        MemberText("usage", u)>>)) : u \in UsageTexts}

InputTexts ==
    {Undef, Str(<<>>), Str(<<"whole">>),
     Str(ObjText(<<MemberText("prompt", StrText("hello"))>>))}

\* Spans of the payload runs.  Of every kind, with and without a parent, a
\* session id and a user id:
LinkedSpans ==
    {WithAttributes(
        MkSpan(<<"step">>, "s1", "t1", parent, typ, Undef, Undef, TRUE, "ok"),
        [sessionId |-> sess, userId |-> user]) :
        typ \in {Str(<<"model">>), Str(<<"flow">>), Str(<<"action">>)},
        parent \in {Undef, Str(<<>>), Str(<<ZeroId>>), Str(<<"s2">>)},
        sess \in {Undef, Str(<<>>), Str(<<"session-1">>)},
        user \in {Undef, Str(<<>>), Str(<<"user-1">>)}}

\* model calls with and without a genkit:name, on paths that do and do not
\* name a provider and a model:
NamedSpans ==
    {WithAttributes(
        MkSpan(<<"step">>, "s1", "t1", Str(<<"s2">>), Str(<<"model">>), path,
               Undef, TRUE, "ok"),
        [name |-> nm]) :
        nm \in {Undef, Str(<<>>), Str(<<"gpt-4">>)},
        path \in {Undef, Str(<<>>), Str(<<"model", "openai", "gpt">>),
                  Str(<<"model", "openai", "">>), Str(<<"model", "openai">>),
                  Str(<<"model", "", "gpt">>), Str(<<"model", "">>),
                  Str(<<"flow", "f", "model", "google", "gemini", "x">>),
                  Str(<<"model", "", "model", "openai", "gpt">>),
                  Str(<<"util", "x">>)}}

\* a model call, a root flow and a tool call with every input and output:
DataSpans ==
    {WithAttributes(s, [input |-> i, output |-> o]) :
        s \in {ModelCall, RootFlow, ToolCall},
        i \in InputTexts, o \in OutputTexts}

\* spans of each kind with genkit:metadata:* attributes in their bag
TaggedSpans ==
    {WithAttributes(s, [other |-> b]) :
        s \in {ModelCall, RootFlow, ToolCall},
        b \in {<<[key |-> <<"genkit", "metadata", "team">>,
                  value |-> Str(<<"search">>)]>>,
               <<[key |-> <<"genkit", "metadata", "team">>,
                  value |-> Str(<<"search">>)],
                 [key |-> <<"other", "k">>, value |-> Str(<<"z">>)],
                 [key |-> <<"genkit", "metadata", "tier">>,
                  value |-> Num(2)]>>}}

PayloadSpans == LinkedSpans \cup NamedSpans \cup DataSpans \cup TaggedSpans

\* Exporter configs of the payload runs
CostFunctions == {"none", "returns", "throws"}
SpanFilters == {"none", "modelOnly"}
PayloadConfigs ==
    {[debug |-> d, calculateCost |-> c, spanFilter |-> f] :
        d \in BOOLEAN, c \in CostFunctions, f \in SpanFilters}

\* Attribute bags of the extraction runs: up to MaxEntries further entries,
\* with distinct keys, and the bag of three entries of two custom keys
Entry(key, value) == [key |-> key, value |-> value]
Entries ==
    {Entry(<<"genkit", "metadata", "a">>, Str(<<"x">>)),
     Entry(<<"genkit", "metadata", "b">>, Num(2)),
     Entry(<<"genkit", "metadata", "">>, Bool(TRUE)),
     Entry(<<"genkit", "metadata", "genkit", "metadata", "c">>, Str(<<"y">>)),
     Entry(<<"genkit", "metadata">>, Str(<<"bare">>)),
     Entry(<<"other", "k">>, Str(<<"z">>)),
     Entry(<<"x", "genkit", "metadata", "a">>, Str(<<"inner">>))}

Bags ==
    {b \in UNION {[1..n -> Entries] : n \in 0..MaxEntries} :
        \A i, j \in 1..Len(b) : i /= j => b[i].key /= b[j].key}
    \cup {<<Entry(<<"genkit", "metadata", "a">>, Str(<<"x">>)),
            Entry(<<"genkit", "metadata", "b">>, Str(<<"y">>)),
            Entry(<<"other", "k">>, Str(<<"z">>))>>}

ExtractSpans ==
    {WithAttributes(ModelCall, [output |-> o]) : o \in OutputTexts}
    \cup {WithAttributes(RootFlow, [other |-> b]) : b \in Bags}
    \cup {NoAttributes}

(***************************************************************************)
(* The state machine                                                       *)
(***************************************************************************)
NoConfig == [secretKey |-> Undef, publicKey |-> Undef, debug |-> Undef,
             calculateCost |-> "none", spanFilter |-> "none"]
NoProvider == [state |-> "none", config |-> NoConfig, exporter |-> 0]
NoConstruct == [via |-> "none", config |-> NoConfig, error |-> "",
                createdExporter |-> FALSE, calledEnable |-> FALSE]
NoHost == [config |-> NoConfig, batch |-> <<>>, cb |-> "returns",
           flushThrows |-> FALSE]
NoExport == [exporter |-> 0, shutdownsBefore |-> 0, shutdownsPending |-> 0]
            @@ export(ExporterConfig(NoConfig), <<>>, "returns", FALSE)
NoSettled == [op |-> "none", via |-> "none", exporter |-> 0,
              called |-> FALSE, backend |-> Resolved, result |-> Resolved]
NoProbe == [span |-> RootFlow, kind |-> "unset", op |-> "none",
            result |-> Returned(Undef)]

\* new LangfuseTelemetryProvider(config), reached through `via`; with
\* andEnable the caller goes on to enableTelemetry(provider.getConfig())
Construct(via, config, andEnable) ==
    LET v == validateConfig(config)
        ok == v.error = ""
        enable == ok /\ andEnable
    IN  /\ provider.state /= "ready"
        /\ provider' = [state |-> IF ok THEN "ready" ELSE "failed",
                        config |-> v.config,
                        exporter |-> IF enable THEN Len(exporters) + 1 ELSE 0]
        /\ exporters' = IF enable
                        THEN Append(exporters, newExporter(ExporterConfig(v.config)))
                        ELSE exporters
        /\ enableTelemetryCalls' = enableTelemetryCalls + (IF enable THEN 1 ELSE 0)
        /\ lastConstruct' = [via |-> via, config |-> config, error |-> v.error,
                             createdExporter |-> enable, calledEnable |-> enable]
        /\ UNCHANGED <<host, lastExport, pending, lastSettled, probe>>

NewProvider == Construct("new", host.config, FALSE)

createLangfuseTelemetryProvider == Construct("create", host.config, FALSE)

enableLangfuseTelemetry ==
    /\ Len(exporters) < MaxExporters
    /\ Construct("enable", host.config, TRUE)

\* getConfig: createSpanProcessor makes a new exporter and keeps only it
getConfig ==
    /\ provider.state = "ready"
    /\ Len(exporters) < MaxExporters
    /\ exporters' = Append(exporters, newExporter(ExporterConfig(provider.config)))
    /\ provider' = [provider EXCEPT !.exporter = Len(exporters) + 1]
    /\ UNCHANGED <<enableTelemetryCalls, lastConstruct, host, lastExport,
                   pending, lastSettled, probe>>

\* the spans of an export for which the client accepted a `call`
CountCalls(rec, call) ==
    Cardinality({i \in 1..Len(rec.steps) :
        \E j \in 1..Len(rec.steps[i].accepted) :
            rec.steps[i].accepted[j].call = call})

\* what an export call that did `rec` leaves behind on exporter e
Exporting(e, rec) ==
    /\ exporters' = [exporters EXCEPT
           ![e].exportCount = @ + 1,
           ![e].client.generation = @ + CountCalls(rec, "generation"),
           ![e].client.trace = @ + CountCalls(rec, "trace"),
           ![e].client.span = @ + CountCalls(rec, "span"),
           ![e].client.log = Receive(@, rec.received),
           ![e].client.flushAsync = @ + (IF rec.flushed THEN 1 ELSE 0)]
    \* with the shutdown calls made on the exporter before this export, and
    \* how many of them have not settled yet
    /\ lastExport' = [exporter |-> e,
                      shutdownsBefore |-> exporters[e].client.shutdownAsync,
                      shutdownsPending |->
                          Cardinality({c \in pending :
                              c.op = "shutdown" /\ c.exporter = e})]
                     @@ rec
    \* the promise of the debug flush is left to settle on its own
    /\ pending' = IF rec.flushed /\ ~(rec.flushThrows)
                  THEN pending \cup {[op |-> "debugFlush", via |-> "export",
                                      exporter |-> e,
                                      n |-> exporters[e].exportCount + 1]}
                  ELSE pending
    /\ UNCHANGED <<provider, enableTelemetryCalls, lastConstruct, host,
                   lastSettled, probe>>

\* exporter.export(host.batch, host.cb)
Export ==
    \E e \in 1..Len(exporters) :
        /\ exporters[e].exportCount < MaxExports
        /\ Exporting(e, exportOn(exporters[e], host.batch, host.cb,
                                 host.flushThrows))

\* the shutdown / forceFlush calls made so far, on all exporters
RECURSIVE TotalCalls(_)
TotalCalls(es) ==
    IF es = <<>> THEN 0 ELSE Head(es).calls + TotalCalls(Tail(es))

\* exporter.shutdown() / exporter.forceFlush() up to their await
Call(op, via, e) ==
    /\ TotalCalls(exporters) < MaxCalls
    /\ exporters' = [exporters EXCEPT
           ![e].calls = @ + 1,
           ![e].client.shutdownAsync = @ + (IF op = "shutdown" THEN 1 ELSE 0),
           ![e].client.flushAsync = @ + (IF op = "forceFlush" THEN 1 ELSE 0)]
    /\ pending' = pending \cup {[op |-> op, via |-> via, exporter |-> e,
                                 n |-> exporters[e].calls + 1]}
    /\ UNCHANGED <<provider, enableTelemetryCalls, lastConstruct, host,
                   lastExport, lastSettled, probe>>

shutdown == \E e \in 1..Len(exporters) : Call("shutdown", "exporter", e)

forceFlush == \E e \in 1..Len(exporters) : Call("forceFlush", "exporter", e)

\* provider.shutdown() / provider.flush(): if (this.exporter) await ...
ProviderCall(op) ==
    /\ provider.state = "ready"
    /\ IF provider.exporter /= 0
       THEN Call(op, "provider", provider.exporter)
       ELSE /\ lastSettled' = [op |-> op, via |-> "provider", exporter |-> 0,
                               called |-> FALSE, backend |-> Resolved,
                               result |-> Resolved]
            /\ UNCHANGED <<provider, exporters, enableTelemetryCalls,
                           lastConstruct, host, lastExport, pending, probe>>

providerShutdown == ProviderCall("shutdown")

providerFlush == ProviderCall("forceFlush")

\* The backend client's promise settles and the awaiting call resumes
Settle ==
    \E call \in pending, backend \in BackendOutcomes :
            /\ pending' = pending \ {call}
            /\ lastSettled' =
                  [op |-> call.op, via |-> call.via, exporter |-> call.exporter,
                   called |-> TRUE, backend |-> backend,
                   result |-> CASE call.op = "shutdown" ->
                                     shutdownOutcome(backend)
                                [] call.op = "forceFlush" ->
                                     forceFlushOutcome(backend)
                                [] OTHER -> debugFlushOutcome(backend)]
            /\ UNCHANGED <<provider, exporters, enableTelemetryCalls,
                           lastConstruct, host, lastExport, probe>>

\* determineSpanType(span, extractMetadata(span)) on the probe
Classify ==
    /\ probe.kind = "unset"
    /\ probe' = [probe EXCEPT
          !.kind = determineSpanType(probe.span, extractMetadata(probe.span))]
    /\ UNCHANGED <<provider, exporters, enableTelemetryCalls, lastConstruct,
                   host, lastExport, pending, lastSettled>>

\* SpanMetadataExtractor.isRootSpan(span) on the probe
IsRootSpan ==
    /\ probe.op = "none"
    /\ probe' = [probe EXCEPT !.op = "isRootSpan",
                               !.result = isRootSpan(probe.span)]
    /\ UNCHANGED <<provider, exporters, enableTelemetryCalls, lastConstruct,
                   host, lastExport, pending, lastSettled>>

\* SpanMetadataExtractor.extractUsage(span) on the probe
ExtractUsage ==
    /\ probe.op = "none"
    /\ probe' = [probe EXCEPT !.op = "extractUsage",
                               !.result = extractUsage(probe.span)]
    /\ UNCHANGED <<provider, exporters, enableTelemetryCalls, lastConstruct,
                   host, lastExport, pending, lastSettled>>

\* SpanMetadataExtractor.extractMetadata(span) on the probe
ExtractMetadata ==
    /\ probe.op = "none"
    /\ probe' = [probe EXCEPT
          !.op = "extractMetadata",
          !.result = LET metadata == extractMetadata(probe.span)
                     IN  [threw |-> metadata.threw, error |-> metadata.error,
                          v |-> metadata]]
    /\ UNCHANGED <<provider, exporters, enableTelemetryCalls, lastConstruct,
                   host, lastExport, pending, lastSettled>>

(***************************************************************************)
(* Spec: one exporter, constructed with debug on or off, and the batch and *)
(* callback the host calls export with                                     *)
(***************************************************************************)
Init ==
    /\ provider = NoProvider
    /\ \E d \in BOOLEAN :
          exporters = <<newExporter([ExporterConfig(NoConfig) EXCEPT !.debug = d])>>
    /\ enableTelemetryCalls = 0
    /\ lastConstruct = NoConstruct
    /\ host \in {[config |-> NoConfig, batch |-> b, cb |-> cb,
                    flushThrows |-> f] :
                    b \in Batches, cb \in Callbacks, f \in BOOLEAN}
    /\ lastExport = NoExport
    /\ pending = {}
    /\ lastSettled = NoSettled
    /\ probe = NoProbe

Next == Export

Spec == Init /\ [][Next]_vars

(***************************************************************************)
(* SpecProvider: the provider, from the config the host constructs it with *)
(* to the shutdown and flush of the exporters it creates                   *)
(***************************************************************************)
InitProvider ==
    /\ provider = NoProvider
    /\ exporters = <<>>
    /\ enableTelemetryCalls = 0
    /\ lastConstruct = NoConstruct
    /\ host \in {[NoHost EXCEPT !.config = c] : c \in Configs}
    /\ lastExport = NoExport
    /\ pending = {}
    /\ lastSettled = NoSettled
    /\ probe = NoProbe

NextProvider ==
    \/ NewProvider
    \/ createLangfuseTelemetryProvider
    \/ enableLangfuseTelemetry
    \/ getConfig
    \/ shutdown
    \/ forceFlush
    \/ providerShutdown
    \/ providerFlush
    \/ Settle

SpecProvider == InitProvider /\ [][NextProvider]_vars

(***************************************************************************)
(* SpecClassify: determineSpanType on one span                             *)
(***************************************************************************)
InitClassify ==
    /\ provider = NoProvider
    /\ exporters = <<>>
    /\ enableTelemetryCalls = 0
    /\ lastConstruct = NoConstruct
    /\ host = NoHost
    /\ lastExport = NoExport
    /\ pending = {}
    /\ lastSettled = NoSettled
    /\ probe \in {[span |-> s, kind |-> "unset", op |-> "none",
                    result |-> Returned(Undef)] : s \in ClassifySpans}

NextClassify == Classify \/ IsRootSpan

SpecClassify == InitClassify /\ [][NextClassify]_vars

(***************************************************************************)
(* SpecPayload: one exporter with a cost function and a span filter        *)
(* configured or not, and the export of one span                           *)
(***************************************************************************)
InitPayload ==
    /\ provider = NoProvider
    /\ \E c \in PayloadConfigs : exporters = <<newExporter(c)>>
    /\ enableTelemetryCalls = 0
    /\ lastConstruct = NoConstruct
    /\ host \in {[NoHost EXCEPT !.batch = <<Item(s, FALSE)>>] :
                    s \in PayloadSpans}
    /\ lastExport = NoExport
    /\ pending = {}
    /\ lastSettled = NoSettled
    /\ probe = NoProbe

NextPayload == Export

SpecPayload == InitPayload /\ [][NextPayload]_vars

(***************************************************************************)
(* SpecExtract: the extractor's functions on one span                      *)
(***************************************************************************)
InitExtract ==
    /\ provider = NoProvider
    /\ exporters = <<>>
    /\ enableTelemetryCalls = 0
    /\ lastConstruct = NoConstruct
    /\ host = NoHost
    /\ lastExport = NoExport
    /\ pending = {}
    /\ lastSettled = NoSettled
    /\ probe \in {[span |-> s, kind |-> "unset", op |-> "none",
                     result |-> Returned(Undef)] : s \in ExtractSpans}

NextExtract ==
    \/ ExtractUsage
    \/ ExtractMetadata

SpecExtract == InitExtract /\ [][NextExtract]_vars

(***************************************************************************)
(* SpecLifecycle: one exporter over its life: the host collects batches    *)
(* and exports them, calls shutdown and forceFlush, and the promises of    *)
(* the backend client settle in between                                    *)
(***************************************************************************)
\* the batches the host's span processor hands over
LifecycleBatches ==
    {<<Item(RootFlow, FALSE), Item(ModelCall, FALSE)>>,
     <<Item(NoAttributes, FALSE), Item(ToolCall, FALSE)>>}

\* the span processor of the host has the next batch ready
NextBatch ==
    /\ \E b \in LifecycleBatches \ {host.batch} :
          host' = [host EXCEPT !.batch = b]
    /\ UNCHANGED <<provider, exporters, enableTelemetryCalls, lastConstruct,
                   lastExport, pending, lastSettled, probe>>

InitLifecycle ==
    /\ provider = NoProvider
    /\ \E d \in BOOLEAN :
          exporters = <<newExporter([ExporterConfig(NoConfig) EXCEPT !.debug = d])>>
    /\ enableTelemetryCalls = 0
    /\ lastConstruct = NoConstruct
    /\ host \in {[NoHost EXCEPT !.batch = b] : b \in LifecycleBatches}
    /\ lastExport = NoExport
    /\ pending = {}
    /\ lastSettled = NoSettled
    /\ probe = NoProbe

NextLifecycle ==
    \/ NextBatch
    \/ Export
    \/ shutdown
    \/ forceFlush
    \/ Settle

SpecLifecycle == InitLifecycle /\ [][NextLifecycle]_vars

(***************************************************************************)
(* Claims                                                                  *)
(***************************************************************************)
Exported == lastExport.exporter /= 0

\* the spans of the last export whose processSpan threw
Threw == {i \in 1..Len(lastExport.steps) : lastExport.steps[i].threw}

\* the submission calls the client accepted during the last export
RECURSIVE Flatten(_)
Flatten(ss) == IF ss = <<>> THEN <<>> ELSE Head(ss).accepted \o Flatten(Tail(ss))

Submissions == Flatten(lastExport.steps)

\* C1: when processSpan throws for exactly one span of a batch (in metadata
\* extraction, payload building or the submission call) and nothing else
\* of the export throws (the debug-mode flushAsync call is outside the
\* per-span try block), the callback's first and, if the callback returns,
\* only report is SUCCESS, processSpan was run on every span of the batch,
\* the failing one and those after it included, and each of the other N-1
\* spans has its one record accepted by the backend client.
C1_OneFailureIsIsolated ==
    (Exported /\ Cardinality(Threw) = 1
     /\ ~(lastExport.flushed /\ lastExport.flushThrows)) =>
        /\ lastExport.callbacks /= <<>>
        /\ lastExport.callbacks[1] = Result("SUCCESS", NoError)
        /\ (lastExport.cb = "returns" => Len(lastExport.callbacks) = 1)
        /\ Len(lastExport.steps) = Len(lastExport.batch)
        /\ \A i \in 1..Len(lastExport.batch) :
              i \notin Threw => Len(lastExport.steps[i].accepted) = 1
        /\ Len(Submissions) = Len(lastExport.batch) - 1

C1_Witness ==
    /\ Exported
    /\ Len(lastExport.batch) = 3
    /\ Threw = {2}
    /\ lastExport.steps[2].stage = "build"
    /\ lastExport.callbacks = <<Result("SUCCESS", NoError)>>
    /\ Len(Submissions) = 2

\* C2: every export call invokes the result callback exactly once, whatever
\* the batch, the debug flag, the span accessors and the callback do.
C2_CallbackExactlyOnce ==
    Exported => Len(lastExport.callbacks) = 1

\* C3 as stated: once the outer try block is entered, export reports
\* SUCCESS unless an exception is raised outside the per-span try/catch,
\* reports FAILED only after such an exception, and the FAILED result
\* carries that very value.
C3_FailedCarriesThrownValue ==
    (Exported /\ lastExport.entered) =>
        /\ lastExport.escaped = NoError =>
              lastExport.callbacks = <<Result("SUCCESS", NoError)>>
        /\ \A i \in 1..Len(lastExport.callbacks) :
              lastExport.callbacks[i].code = "FAILED" =>
                  /\ lastExport.escaped /= NoError
                  /\ lastExport.callbacks[i].error = lastExport.escaped

\* C3 amended: as above, but the FAILED result carries the thrown value
\* itself only when it is an Error instance; any other thrown value arrives
\* as a new Error built from its string form.
C3_FailedCarriesError ==
    (Exported /\ lastExport.entered) =>
        /\ lastExport.escaped = NoError =>
              lastExport.callbacks = <<Result("SUCCESS", NoError)>>
        /\ \A i \in 1..Len(lastExport.callbacks) :
              lastExport.callbacks[i].code = "FAILED" =>
                  LET error == lastExport.callbacks[i].error
                  IN  /\ lastExport.escaped /= NoError
                      /\ error.isError
                      /\ lastExport.escaped.isError => error = lastExport.escaped
                      /\ ~lastExport.escaped.isError =>
                            /\ error.id = "Error"
                            /\ error.of = lastExport.escaped.id

\* every span of the batch failed and the report is SUCCESS all the same;
\* the callback threw a value that is not an Error and was then called with
\* FAILED and a new Error made from it
C3_Witness ==
    /\ Exported
    /\ Len(lastExport.batch) = 2
    /\ Threw = {1, 2}
    /\ lastExport.cb = "throwsValue"
    /\ ~lastExport.escaped.isError
    /\ lastExport.callbacks =
           <<Result("SUCCESS", NoError),
             Result("FAILED", [id |-> "Error", isError |-> TRUE,
                               of |-> lastExport.escaped.id])>>

\* C10: in an export that entered its loop, a span whose processing did not
\* throw has exactly one record accepted, through the call named after its
\* kind; a span whose processing threw has none; the accepted records are
\* as many as successCount, and successCount + errorCount is the batch size.
C10_OneSubmissionPerSuccess ==
    (Exported /\ lastExport.entered) =>
        /\ Len(lastExport.steps) = Len(lastExport.batch)
        /\ \A i \in 1..Len(lastExport.steps) :
              LET step == lastExport.steps[i]
                  span == lastExport.batch[i].span
              IN  IF step.threw
                  THEN step.accepted = <<>>
                  ELSE /\ Len(step.accepted) = 1
                       /\ step.accepted[1].call =
                             determineSpanType(span, extractMetadata(span))
                       /\ step.accepted[1].id =
                             IF step.accepted[1].call = "trace"
                             THEN span.traceId ELSE span.spanId
        /\ Len(Submissions) = lastExport.successCount
        /\ lastExport.successCount + lastExport.errorCount = Len(lastExport.batch)

C10_Witness ==
    /\ Exported
    /\ lastExport.successCount = 2
    /\ lastExport.errorCount = 1
    /\ lastExport.steps[1].stage = "submit"
    /\ Len(Submissions) = 2
    /\ Submissions[1].call = "generation"
    /\ Submissions[2].call = "trace"

\* C4: a shutdown call has called the client's shutdownAsync, and it settles
\* as that call did: resolved when it resolved, rejected with the same value
\* when it rejected.
C4_ShutdownPropagates ==
    (lastSettled.op = "shutdown" /\ lastSettled.called) =>
        /\ exporters[lastSettled.exporter].client.shutdownAsync >= 1
        /\ lastSettled.backend.ok => lastSettled.result = Resolved
        /\ ~lastSettled.backend.ok =>
              lastSettled.result = Rejected(lastSettled.backend.error)

C4_Witness ==
    /\ lastSettled.op = "shutdown"
    /\ lastSettled.via = "exporter"
    /\ lastSettled.called
    /\ lastSettled.backend = Rejected(Thrown("backendValue", FALSE))
    /\ lastSettled.result = lastSettled.backend

\* C5: a forceFlush call, made directly or through the provider's flush, has
\* called the client's flushAsync, and when that call rejects, it rejects
\* with the call's error.
C5_FlushSurfacesErrors ==
    (lastSettled.op = "forceFlush" /\ lastSettled.called) =>
        LET e == exporters[lastSettled.exporter]
        IN  /\ e.client.flushAsync >= 1 + (IF e.config.debug THEN 1 ELSE 0)
            /\ ~lastSettled.backend.ok =>
                  /\ ~lastSettled.result.ok
                  /\ lastSettled.result.error = lastSettled.backend.error
            /\ lastSettled.backend.ok => lastSettled.result.ok

C5_Witness ==
    /\ lastSettled.op = "forceFlush"
    /\ lastSettled.via = "provider"
    /\ lastSettled.called
    /\ ~lastSettled.backend.ok
    /\ ~lastSettled.result.ok

\* C6: constructing the provider with a missing or empty secretKey fails
\* with the secret-key message, with a secretKey and a missing or empty
\* publicKey with the public-key message; a failed construction creates no
\* exporter and does not call enableTelemetry.
C6_MissingKeyAborts ==
    lastConstruct.via /= "none" =>
        /\ ~Truthy(lastConstruct.config.secretKey) =>
              lastConstruct.error = SecretKeyRequired
        /\ (Truthy(lastConstruct.config.secretKey)
              /\ ~Truthy(lastConstruct.config.publicKey)) =>
              lastConstruct.error = PublicKeyRequired
        /\ (~Truthy(lastConstruct.config.secretKey)
              \/ ~Truthy(lastConstruct.config.publicKey)) =>
              /\ provider.state = "failed"
              /\ exporters = <<>>
              /\ enableTelemetryCalls = 0

C6_Witness ==
    /\ lastConstruct.via = "enable"
    /\ lastConstruct.config.secretKey = Str(<<"sk-test">>)
    /\ lastConstruct.config.publicKey = Str(<<>>)
    /\ lastConstruct.error = PublicKeyRequired
    /\ exporters = <<>>

Classified == probe.kind /= "unset"

\* C7: a span whose type is 'model' or whose path contains '/model/' is a
\* generation, whatever its root flag, parent id, flow and tool indicators.
C7_ModelSpanIsGeneration ==
    (Classified /\ isModelSpan(probe.span)) => probe.kind = "generation"

\* a root flow whose path runs through a model call
C7_Witness ==
    /\ Classified
    /\ probe.span.attributes.type = Str(<<"flow">>)
    /\ probe.span.attributes.isRoot = Str(<<"true">>)
    /\ probe.span.parentSpanId = Undef
    /\ probe.span.attributes.path =
          Str(<<"flow", "f", "model", "openai", "gpt">>)
    /\ probe.kind = "generation"

NoParent(span) ==
    span.parentSpanId \in {Undef, Str(<<>>), Str(<<ZeroId>>)}

\* the indicators of a model call: type, path, and the name's fragments
ModelIndicators(span) ==
    \/ isModelSpan(span)
    \/ NameIncludes(span.name, "generate")
    \/ NameIncludes(span.name, "model")

\* C8: a span with no parent id (absent, empty or all-zero) and no model
\* indicator (type, path or name) is a trace.
C8_NoParentIsTrace ==
    (Classified /\ NoParent(probe.span) /\ ~ModelIndicators(probe.span))
        => probe.kind = "trace"

C8_Witness ==
    /\ Classified
    /\ probe.span.parentSpanId = Str(<<ZeroId>>)
    /\ probe.span.attributes.type = Str(<<"tool">>)
    /\ probe.span.attributes.isRoot = Bool(FALSE)
    /\ probe.kind = "trace"

\* The ordered first-match-wins rules as the specification words them
KindByRules(span) ==
    LET type == span.attributes.type
        path == span.attributes.path
        pathHas(seg) == path.t = "str" /\ PathIncludes(path.s, seg)
        root == span.attributes.isRoot \in {Str(<<"true">>), Bool(TRUE)}
    IN  CASE \/ type = Str(<<"model">>)
             \/ pathHas("model")
             \/ NameIncludes(span.name, "generate")
             \/ NameIncludes(span.name, "model") -> "generation"
          [] OTHER ->
               CASE root \/ type = Str(<<"flow">>) \/ pathHas("flow")
                         \/ NoParent(span) -> "trace"
                 [] OTHER -> "span"

\* the span with its tool indicators taken away
Untooled(s) == [i \in 1..Len(s) |-> IF s[i] \in {"tool", "Tool"} THEN "x" ELSE s[i]]

WithoutTool(span) ==
    [span EXCEPT
        !.name = Untooled(@),
        !.attributes.type = IF @ = Str(<<"tool">>) THEN Str(<<"action">>) ELSE @,
        !.attributes.path = IF @.t = "str" THEN Str(Untooled(@.s)) ELSE @]

\* C9: determineSpanType is the first-match-wins rule list (generation,
\* then trace, then span), its result is one of the three kinds, and taking
\* the tool indicators away from the span leaves the result as it is.
C9_ClassificationByRules ==
    Classified =>
        /\ probe.kind = KindByRules(probe.span)
        /\ probe.kind \in {"generation", "trace", "span"}
        /\ probe.kind = determineSpanType(WithoutTool(probe.span),
                           extractMetadata(WithoutTool(probe.span)))

\* a parentless tool call, which the trace rule takes before the tool rule
C9_Witness ==
    /\ Classified
    /\ probe.span.attributes.type = Str(<<"tool">>)
    /\ probe.span.name = <<"My", "Tool">>
    /\ probe.span.parentSpanId = Undef
    /\ probe.kind = "trace"

(***************************************************************************)
(* The payloads of one exported span (SpecPayload)                         *)
(***************************************************************************)
\* the configuration of the exporter that made the last export
TheConfig == exporters[lastExport.exporter].config

\* the one span of the batch, what was read from it and what came of it
TheSpan == lastExport.batch[1].span
TheMetadata == extractMetadata(TheSpan)
TheStep == lastExport.steps[1]

\* a record of the span was accepted by the backend client
Sent ==
    /\ Exported
    /\ Len(lastExport.batch) = 1
    /\ Len(lastExport.steps) = 1
    /\ Len(TheStep.accepted) = 1

ThePayload == TheStep.accepted[1]

\* The predicate of the README and of the integration test, on the span as
\* the predicate sees it: span.spanType === 'model'
FilterAccepts(filter, span) ==
    filter = "modelOnly" => extractMetadata(span).spanType = Str(<<"model">>)

\* C11: when a spanFilter is configured, a span for which it returns false
\* has no record submitted.
C11_FilteredSpanNotSubmitted ==
    (Exported /\ lastExport.entered) =>
        \A i \in 1..Len(lastExport.steps) :
            ~FilterAccepts(TheConfig.spanFilter, lastExport.batch[i].span)
                => lastExport.steps[i].accepted = <<>>

\* C12: the payload of every kind carries sessionId exactly when the
\* metadata has a session id, with that value, and userId likewise.
C12_SessionAndUserAttached ==
    Sent =>
        /\ ThePayload.sessionId =
              IF Truthy(TheMetadata.sessionId)
              THEN TheMetadata.sessionId ELSE Omitted
        /\ ThePayload.userId =
              IF Truthy(TheMetadata.userId)
              THEN TheMetadata.userId ELSE Omitted

\* C13: the payload of every kind has parentObservationId equal to the
\* span's parent id, and has none when the parent id is absent or all-zero.
C13_ParentLinked ==
    Sent =>
        ThePayload.parentObservationId =
            IF NoParent(TheSpan) THEN Omitted ELSE TheSpan.parentSpanId

\* the usage value of the decoded output, undefined when there is none
DecodedUsage == Get(parseJSON(TheMetadata.output), "usage")

\* C14: when calculateCost throws for a generation, the error is swallowed:
\* the generation is submitted with its usage fields and without a cost,
\* the span counts as a success and the batch reports SUCCESS; when no
\* calculateCost is configured, no payload has a cost.
C14_CostErrorSwallowed ==
    (Exported /\ Len(lastExport.batch) = 1 /\ Len(lastExport.steps) = 1) =>
        /\ (TheStep.kind = "generation" /\ TheConfig.calculateCost = "throws") =>
              /\ ~TheStep.threw
              /\ Len(TheStep.accepted) = 1
              /\ ThePayload.call = "generation"
              /\ Truthy(DecodedUsage) =>
                    /\ ThePayload.usage /= Omitted
                    /\ ThePayload.usage.input = Get(DecodedUsage, "inputTokens")
                    /\ ThePayload.usage.output = Get(DecodedUsage, "outputTokens")
                    /\ ThePayload.usage.total = Get(DecodedUsage, "totalTokens")
              /\ ThePayload.totalCost = Omitted
              /\ lastExport.successCount = 1
              /\ lastExport.errorCount = 0
              /\ lastExport.callbacks = <<Result("SUCCESS", NoError)>>
        /\ (TheConfig.calculateCost = "none" /\ Len(TheStep.accepted) = 1) =>
              ThePayload.totalCost = Omitted

\* a generation with token counts, exported with a calculateCost that throws
C14_Witness ==
    /\ Sent
    /\ TheConfig.calculateCost = "throws"
    /\ ThePayload.call = "generation"
    /\ ThePayload.usage /= Omitted
    /\ ThePayload.usage.input = Num(10)
    /\ ThePayload.totalCost = Omitted
    /\ lastExport.callbacks = <<Result("SUCCESS", NoError)>>

\* a value that is an object (a JSON object of the decoded output)
IsObject(v) == v.t = "obj"

\* the payload of a generation that was accepted
SentGeneration == Sent /\ ThePayload.call = "generation"

\* the output text parsed once more (defined when the output is a text)
OutputAgain == JSONparse(TheMetadata.output.s).v

\* C15 as stated: a generation payload has a usage record exactly when the
\* decoded output contains a usage object, and its input, output and total
\* are that object's inputTokens, outputTokens and totalTokens.
C15_UsageExactlyForObject ==
    SentGeneration =>
        /\ ThePayload.usage /= Omitted <=> IsObject(DecodedUsage)
        /\ ThePayload.usage /= Omitted =>
              /\ ThePayload.usage.input = Get(DecodedUsage, "inputTokens")
              /\ ThePayload.usage.output = Get(DecodedUsage, "outputTokens")
              /\ ThePayload.usage.total = Get(DecodedUsage, "totalTokens")

\* C15: a generation payload has a usage record exactly when the decoded
\* output has a truthy usage value (an object, or a non-zero number, a
\* non-empty string or true); its input, output and total are then that
\* value's inputTokens, outputTokens and totalTokens unchanged, undefined
\* where the value has none, so that parsing the output text again gives
\* the same numbers back.
C15_UsageMapped ==
    SentGeneration =>
        /\ ThePayload.usage /= Omitted <=> Truthy(DecodedUsage)
        /\ ThePayload.usage /= Omitted =>
              /\ ThePayload.usage.input =
                    Get(Get(OutputAgain, "usage"), "inputTokens")
              /\ ThePayload.usage.output =
                    Get(Get(OutputAgain, "usage"), "outputTokens")
              /\ ThePayload.usage.total =
                    Get(Get(OutputAgain, "usage"), "totalTokens")
              /\ IsObject(DecodedUsage) =>
                    \A f \in {"input", "output", "total"} :
                        ThePayload.usage[f].t \in {"num", "null", "undef"}
              /\ ~IsObject(DecodedUsage) =>
                    \A f \in {"input", "output", "total"} :
                        ThePayload.usage[f] = Undef

\* an output whose usage has two counts and no total
C15_Witness ==
    /\ SentGeneration
    /\ IsObject(DecodedUsage)
    /\ ThePayload.usage.input = Num(10)
    /\ ThePayload.usage.output = Num(5)
    /\ ThePayload.usage.total = Undef

\* the path matches /model/<provider>/<model>: a "model" segment followed
\* by two non-empty segments
OnModelPath(path) ==
    /\ path.t = "str"
    /\ \E i \in 1..(Len(path.s) - 2) :
          path.s[i] = "model" /\ path.s[i + 1] /= "" /\ path.s[i + 2] /= ""

\* the first place where the pattern matches
FirstOnModelPath(path) ==
    CHOOSE i \in 1..(Len(path.s) - 2) :
        /\ path.s[i] = "model" /\ path.s[i + 1] /= "" /\ path.s[i + 2] /= ""
        /\ \A j \in 1..(i - 1) :
              ~(path.s[j] = "model" /\ path.s[j + 1] /= "" /\ path.s[j + 2] /= "")

\* C16: the model of a generation is the metadata name when there is one,
\* else the second group of /model/<provider>/<model> in the path, else
\* 'unknown'; the provider is the first group of the same pattern, else
\* 'unknown'; the provider is 'unknown' exactly when the model taken from
\* the path is.
C16_ModelAndProviderFromPath ==
    SentGeneration =>
        LET path == TheMetadata.path
            pathModel == IF OnModelPath(path)
                         THEN Str(<<path.s[FirstOnModelPath(path) + 2]>>)
                         ELSE Unknown
            pathProvider == IF OnModelPath(path)
                            THEN Str(<<path.s[FirstOnModelPath(path) + 1]>>)
                            ELSE Unknown
        IN  /\ ThePayload.model =
                  IF Truthy(TheMetadata.name) THEN TheMetadata.name ELSE pathModel
            /\ ThePayload.metadata.provider = pathProvider
            /\ ThePayload.metadata.provider = Unknown <=> pathModel = Unknown

\* what a payload field decoded from the attribute value must be
DecodedAs(field, value) ==
    /\ value = Undef => field = Undef
    /\ (value.t = "str" /\ ~JSONparse(value.s).ok) => field = value
    /\ (value.t = "str" /\ value.s /= <<>> /\ JSONparse(value.s).ok) =>
          field = JSONparse(value.s).v

\* C17: parseJSON never throws and never drops data: the input and output
\* of every payload are the decoded value when the attribute is valid JSON,
\* the attribute unchanged when it is not, and absent when it is absent; a
\* text that does not decode never makes the span fail.
C17_DecodeOrKeep ==
    (Exported /\ Len(lastExport.batch) = 1) =>
        /\ Sent
        /\ ~TheStep.threw
        /\ lastExport.errorCount = 0
        /\ DecodedAs(ThePayload.input, TheMetadata.input)
        /\ DecodedAs(ThePayload.output, TheMetadata.output)

\* an input that is not JSON beside an output that is
C17_Witness ==
    /\ Sent
    /\ TheMetadata.input.t = "str"
    /\ ~JSONparse(TheMetadata.input.s).ok
    /\ ThePayload.input = TheMetadata.input
    /\ TheMetadata.output.t = "str"
    /\ IsObject(ThePayload.output)

(***************************************************************************)
(* SpanMetadataExtractor on one span (SpecExtract)                         *)
(***************************************************************************)
\* extractUsage was called on a span that has an attribute bag
UsageExtracted == probe.op = "extractUsage" /\ probe.span.hasAttrs

\* the output attribute parsed as JSON (defined when it is a text)
ParsedOutput == JSONparse(probe.span.attributes.output.s)

\* the output attribute is a text whose JSON has a usage object
HasUsageObject ==
    /\ probe.span.attributes.output.t = "str"
    /\ ParsedOutput.ok
    /\ IsObject(ParsedOutput.v)
    /\ IsObject(Get(ParsedOutput.v, "usage"))

TheUsage == Get(ParsedOutput.v, "usage")

\* a token count of the usage object, 0 when it is missing (or null)
CountOr0(field) ==
    IF Get(TheUsage, field).t = "num" THEN Get(TheUsage, field) ELSE Num(0)

\* C18 as stated: for an output whose JSON has a usage object, extractUsage
\* returns its inputTokens and outputTokens (0 when missing), and
\* totalTokens equal to the usage's totalTokens when that field is present
\* and to inputTokens + outputTokens when it is absent.
C18_TotalWhenPresent ==
    (UsageExtracted /\ HasUsageObject) =>
        /\ ~probe.result.threw
        /\ probe.result.v.inputTokens = CountOr0("inputTokens")
        /\ probe.result.v.outputTokens = CountOr0("outputTokens")
        /\ probe.result.v.totalTokens =
              IF Get(TheUsage, "totalTokens") /= Undef
              THEN Get(TheUsage, "totalTokens")
              ELSE Num(CountOr0("inputTokens").n + CountOr0("outputTokens").n)

\* C18: for an output whose JSON has a usage object, extractUsage returns
\* its inputTokens and outputTokens (0 when missing), and totalTokens equal
\* to the usage's totalTokens when that field is present and not 0, and to
\* inputTokens + outputTokens otherwise.
C18_TotalOrSum ==
    (UsageExtracted /\ HasUsageObject) =>
        /\ ~probe.result.threw
        /\ probe.result.v.inputTokens = CountOr0("inputTokens")
        /\ probe.result.v.outputTokens = CountOr0("outputTokens")
        /\ probe.result.v.totalTokens =
              IF CountOr0("totalTokens") /= Num(0)
              THEN Get(TheUsage, "totalTokens")
              ELSE Num(CountOr0("inputTokens").n + CountOr0("outputTokens").n)

\* a usage with both counts and no total: the total is their sum
C18_Witness ==
    /\ UsageExtracted
    /\ HasUsageObject
    /\ Get(TheUsage, "totalTokens") = Undef
    /\ probe.result.v = TokenUsage(Num(10), Num(5), Num(15))

\* the output attribute is a text that is valid JSON
OutputParses ==
    probe.span.attributes.output.t = "str" /\ ParsedOutput.ok

\* C19: extractUsage returns null, and does not throw, when the output is
\* missing, is not valid JSON, is JSON that is not an object (such as
\* null), or is an object without a usage field.
C19_NullWithoutUsage ==
    (/\ UsageExtracted
     /\ \/ probe.span.attributes.output \in {Undef, Str(<<>>)}
        \/ ~OutputParses
        \/ OutputParses /\ ~IsObject(ParsedOutput.v)
        \/ OutputParses /\ IsObject(ParsedOutput.v)
              /\ Get(ParsedOutput.v, "usage") = Undef)
        => probe.result = Returned(Null)

\* the output text is the JSON null
C19_Witness ==
    /\ UsageExtracted
    /\ probe.span.attributes.output = Str(<<"null">>)
    /\ ParsedOutput.v = Null
    /\ probe.result = Returned(Null)

\* extractMetadata was called on a span that has an attribute bag
MetadataExtracted == probe.op = "extractMetadata" /\ probe.span.hasAttrs

\* the attributes the span has beside the ones extractMetadata names
TheBag == probe.span.attributes.other

\* the places of the bag whose key starts with 'genkit:metadata:'
Prefixed ==
    {i \in 1..Len(TheBag) :
        /\ Len(TheBag[i].key) > 2
        /\ TheBag[i].key[1] = "genkit"
        /\ TheBag[i].key[2] = "metadata"}

\* the key after the prefix
Remainder(key) == SubSeq(key, 3, Len(key))

\* C20: the custom metadata has exactly one entry for each attribute whose
\* key starts with 'genkit:metadata:', keyed by the rest of the key, with
\* the attribute's value unchanged, and no other entry.
C20_CustomMetadataEntries ==
    MetadataExtracted =>
        LET metadata == probe.result.v.metadata
        IN  /\ ~probe.result.threw
            /\ Len(metadata) = Cardinality(Prefixed)
            /\ \A i \in Prefixed :
                  Cardinality({j \in 1..Len(metadata) :
                      metadata[j].k = Remainder(TheBag[i].key)}) = 1
            /\ \A i \in Prefixed : \A j \in 1..Len(metadata) :
                  metadata[j].k = Remainder(TheBag[i].key)
                      => metadata[j].v = TheBag[i].value
            /\ \A j \in 1..Len(metadata) : \E i \in Prefixed :
                  metadata[j].k = Remainder(TheBag[i].key)

\* two prefixed attributes beside one that is not
C20_Witness ==
    /\ MetadataExtracted
    /\ Len(TheBag) = 3
    /\ probe.result.v.metadata =
          <<[k |-> <<"a">>, v |-> Str(<<"x">>)],
            [k |-> <<"b">>, v |-> Str(<<"y">>)]>>

\* the metadata bag of a payload, as keys and values
MetadataBag(payload) ==
    {[k |-> <<f>>, v |-> payload.metadata[f]] :
        f \in {g \in DOMAIN payload.metadata : payload.metadata[g] /= Omitted}}

\* C21: every custom-metadata entry extracted from a span is in the
\* metadata bag of the record submitted for that span.
C21_CustomMetadataSubmitted ==
    Sent =>
        \A j \in 1..Len(TheMetadata.metadata) :
            TheMetadata.metadata[j] \in MetadataBag(ThePayload)

(***************************************************************************)
(* The records the backend client receives                                 *)
(***************************************************************************)
\* the record is the one a span gives: trace records carry the trace id,
\* the others the span id
DerivedFrom(record, span) ==
    /\ record.name = span.name
    /\ record.id = IF record.call = "trace" THEN span.traceId ELSE span.spanId

\* the log of the client of the exporter that made the last export
TheLog == exporters[lastExport.exporter].client.log

\* C22: within one export call the records reach the backend client in
\* the order in which the batch lists their spans: the k-th record received
\* comes from a span that is later in the batch than the span of every
\* record received before it.
C22_SubmittedInBatchOrder ==
    (Exported /\ lastExport.entered) =>
        LET received == lastExport.received
        IN  /\ Len(received) = lastExport.successCount
            /\ \E f \in [1..Len(received) -> 1..Len(lastExport.batch)] :
                  /\ \A k \in 1..Len(received) :
                        /\ DerivedFrom(received[k], lastExport.batch[f[k]].span)
                        /\ lastExport.steps[f[k]].accepted = <<received[k]>>
                  /\ \A k, l \in 1..Len(received) : k < l => f[k] < f[l]
            /\ Len(TheLog) >= Len(received)
            /\ SubSeq(TheLog, Len(TheLog) - Len(received) + 1, Len(TheLog))
                  = received

\* a tool call, a failing span and a model call: the record of the tool
\* call is received before the generation record
C22_Witness ==
    /\ Exported
    /\ lastExport.batch = <<Item(ToolCall, FALSE), Item(NoAttributes, FALSE),
                            Item(ModelCall, FALSE)>>
    /\ Len(lastExport.received) = 2
    /\ lastExport.received[1].name = ToolCall.name
    /\ lastExport.received[2].name = ModelCall.name
    /\ lastExport.received[2].call = "generation"

\* isRootSpan was called on the probe
RootAsked == probe.op = "isRootSpan"

\* the genkit:isRoot attribute of the probe
RootFlag == probe.span.attributes.isRoot

\* the span has a flow indicator: its type or its path
FlowIndicators(span) ==
    \/ span.attributes.type = Str(<<"flow">>)
    \/ /\ span.attributes.path.t = "str"
       /\ PathIncludes(span.attributes.path.s, "flow")

\* C23: isRootSpan is true exactly when genkit:isRoot is the string 'true'
\* (false for the boolean true); the isRoot field of extractMetadata is
\* true for the string 'true' and for the boolean true; so a span with a
\* parent, no model or flow indicator and genkit:isRoot = boolean true is
\* classified 'trace' although isRootSpan is false for it.
C23_RootFlagReadTwoWays ==
    RootAsked =>
        /\ ~probe.result.threw
        /\ probe.result.v = Bool(RootFlag = Str(<<"true">>))
        /\ RootFlag = Bool(TRUE) => probe.result.v = Bool(FALSE)
        /\ extractMetadata(probe.span).isRoot
              <=> RootFlag \in {Str(<<"true">>), Bool(TRUE)}
        /\ (/\ Classified
            /\ ~NoParent(probe.span)
            /\ ~ModelIndicators(probe.span)
            /\ ~FlowIndicators(probe.span)
            /\ RootFlag = Bool(TRUE))
              => probe.kind = "trace"

\* an action with a parent whose root flag is the boolean true
C23_Witness ==
    /\ RootAsked
    /\ Classified
    /\ probe.span.parentSpanId = Str(<<"s2">>)
    /\ probe.span.attributes.type = Str(<<"action">>)
    /\ probe.span.attributes.path = Str(<<"util", "x">>)
    /\ RootFlag = Bool(TRUE)
    /\ probe.result.v = Bool(FALSE)
    /\ probe.kind = "trace"

(***************************************************************************)
(* One exporter over its life (SpecLifecycle)                              *)
(***************************************************************************)
\* every one of the records comes from a span of the batch
FromBatch(records, batch) ==
    \A k \in 1..Len(records) :
        \E i \in 1..Len(batch) : DerivedFrom(records[k], batch[i].span)

\* C24 as stated: every record a backend client has received comes from a
\* span of a batch passed to export, with debug on or off.
C24_EveryRecordFromASpan ==
    \A e \in 1..Len(exporters) :
        \A k \in 1..Len(exporters[e].client.log) :
            \E b \in LifecycleBatches :
                FromBatch(<<exporters[e].client.log[k]>>, b)

\* what the client has received when the constructor returns
BaseLog(e) == IF exporters[e].config.debug THEN <<TestTrace>> ELSE <<>>

\* the records the client of exporter e receives in a step
Added(e) ==
    SubSeq(exporters'[e].client.log, Len(exporters[e].client.log) + 1,
           Len(exporters'[e].client.log))

\* the log of exporter e only grows in a step
Grows(e) ==
    /\ Len(exporters'[e].client.log) >= Len(exporters[e].client.log)
    /\ SubSeq(exporters'[e].client.log, 1, Len(exporters[e].client.log))
          = exporters[e].client.log

\* C24: with debug off the client receives nothing from the constructor,
\* with debug on it receives the one trace of the connection test; after
\* that, over any sequence of export, forceFlush and shutdown calls, it
\* receives records only in export calls, each from a span of the batch
\* passed to that call.
C24_OnlyConnectionTestBesideSpans ==
    /\ [](\A e \in 1..Len(exporters) :
            /\ Len(exporters[e].client.log) >= Len(BaseLog(e))
            /\ SubSeq(exporters[e].client.log, 1, Len(BaseLog(e))) = BaseLog(e)
            /\ exporters[e].exportCount = 0 =>
                  exporters[e].client.log = BaseLog(e)
            /\ exporters[e].client.testTrace = Len(BaseLog(e)))
    /\ [][\A e \in 1..Len(exporters) :
            /\ Grows(e)
            /\ FromBatch(Added(e), host.batch)
            /\ Added(e) /= <<>> =>
                  exporters'[e].exportCount = exporters[e].exportCount + 1]_vars

\* a debug exporter after the export of a flow and a model call
C24_Witness ==
    /\ Exported
    /\ TheConfig.debug
    /\ Len(TheLog) = 3
    /\ TheLog[1] = TestTrace
    /\ TheLog[2].call = "trace"
    /\ TheLog[2].name = RootFlow.name
    /\ TheLog[3].call = "generation"

\* C25: trace records carry the trace id and generation and span records
\* the span id of their span, and within one batch no two trace records
\* are received with the same id.
C25_OneTracePerTraceId ==
    (Exported /\ lastExport.entered) =>
        /\ \A i \in 1..Len(lastExport.steps) :
              \A j \in 1..Len(lastExport.steps[i].accepted) :
                  DerivedFrom(lastExport.steps[i].accepted[j],
                              lastExport.batch[i].span)
        /\ \A k, l \in 1..Len(lastExport.received) :
              (/\ k < l
               /\ lastExport.received[k].call = "trace"
               /\ lastExport.received[l].call = "trace")
                  => lastExport.received[k].id /= lastExport.received[l].id

(***************************************************************************)
(* The provider and the exporters it creates (SpecProvider)                *)
(***************************************************************************)
\* a shutdown or flush of the provider has settled
ProviderSettled == lastSettled.via = "provider"

\* the client call a shutdown or flush is to make on an exporter
Reached(e, op) ==
    IF op = "shutdown"
    THEN exporters[e].client.shutdownAsync >= 1
    ELSE exporters[e].client.flushAsync
            > (IF exporters[e].config.debug THEN 1 ELSE 0)

\* C26: shutdown and flush of a provider whose getConfig was never called
\* resolve without calling a client; after any number of getConfig calls
\* they reach the client of every exporter the provider had created when
\* they were called.
C26_EveryExporterReached ==
    ProviderSettled =>
        /\ ~lastSettled.called =>
              /\ lastSettled.exporter = 0
              /\ lastSettled.result = Resolved
        /\ lastSettled.called =>
              \A e \in 1..lastSettled.exporter : Reached(e, lastSettled.op)

\* what the last export would have done on an exporter just constructed
FreshExport ==
    export(TheConfig, lastExport.batch, lastExport.cb, lastExport.flushThrows)

\* C27: the exporter keeps no lifecycle state: an export made after
\* shutdown calls, settled or pending, does what it does on a new
\* exporter (classifies, submits and reports SUCCESS), and every shutdown
\* and forceFlush call invokes the backend client once more.
C27_NoLifecycleState ==
    /\ [](Exported =>
            /\ \A f \in DOMAIN FreshExport : lastExport[f] = FreshExport[f]
            /\ lastExport.callbacks = <<Result("SUCCESS", NoError)>>
            /\ Len(lastExport.steps) = Len(lastExport.batch))
    /\ [][\A c \in pending' \ pending :
            /\ c.op = "shutdown" =>
                  exporters'[c.exporter].client.shutdownAsync
                     = exporters[c.exporter].client.shutdownAsync + 1
            /\ c.op = "forceFlush" =>
                  exporters'[c.exporter].client.flushAsync
                     = exporters[c.exporter].client.flushAsync + 1]_vars

\* an export after two shutdown calls, one settled and one still pending
C27_Witness ==
    /\ Exported
    /\ lastExport.shutdownsBefore = 2
    /\ lastExport.shutdownsPending = 1
    /\ TheLog /= <<>>
    /\ lastExport.received /= <<>>
    /\ lastExport.steps[2].kind = "generation"
    /\ lastExport.callbacks = <<Result("SUCCESS", NoError)>>

\* the debug flushes of export calls whose promise has not settled
DebugFlushes == {c \in pending : c.op = "debugFlush"}

\* the step is an export call on exporter e
ExportStep(e) == exporters'[e].exportCount = exporters[e].exportCount + 1

\* C28: export runs to completion in one step: when it returns it has
\* invoked the result callback, while the promise of its debug flush is
\* still pending; the rejection of that promise is swallowed and leaves
\* the reported result as it was; and the records of one export call
\* reach the client as one block, after all records of the calls before
\* it, however the calls and the pending flushes overlap.
C28_ExportRunsToCompletion ==
    /\ [](/\ (Exported /\ lastExport.entered) => lastExport.callbacks /= <<>>
          /\ (Exported /\ lastExport.flushed /\ ~lastExport.flushThrows) =>
                lastExport.callbacks = <<Result("SUCCESS", NoError)>>
          /\ lastSettled.op = "debugFlush" => lastSettled.result = Resolved)
    /\ [][\A e \in 1..Len(exporters) :
            /\ ExportStep(e) =>
                  /\ lastExport'.exporter = e
                  /\ lastExport'.batch = host.batch
                  /\ exporters'[e].client.log
                        = exporters[e].client.log \o lastExport'.received
                  /\ (lastExport'.flushed /\ ~lastExport'.flushThrows) =>
                        \E c \in pending' \ pending :
                            c.op = "debugFlush" /\ c.exporter = e
            /\ ~ExportStep(e) =>
                  /\ exporters'[e].client.log = exporters[e].client.log
                  /\ lastExport' = lastExport]_vars

\* two exports of a debug exporter: the flush of one has been rejected,
\* the flush of the other is still pending, and the client has the test
\* trace, then the two records of the first batch, then the one of the
\* second
C28_Witness ==
    /\ Exported
    /\ exporters[lastExport.exporter].exportCount = 2
    /\ Cardinality(DebugFlushes) = 1
    /\ lastSettled.op = "debugFlush"
    /\ ~lastSettled.backend.ok
    /\ lastExport.callbacks = <<Result("SUCCESS", NoError)>>
    /\ Len(TheLog) = 4
    /\ TheLog[2].name = RootFlow.name
    /\ TheLog[3].name = ModelCall.name
    /\ TheLog[4].name = ToolCall.name

(***************************************************************************)
(* The cost function and the two readings of the usage                     *)
(***************************************************************************)
\* a token count as calculateCost is to receive it: 0 when it is missing
ZeroIfMissing(field) ==
    IF Get(DecodedUsage, field).t = "num"
    THEN Get(DecodedUsage, field) ELSE Num(0)

\* the calls of calculateCost made for the one span of the batch
TheCostCalls == TheStep.costCalls

\* what C29 says of the call and of the cost, `called` being the test on
\* the usage that decides whether the call is made
CostCalledWhen(called) ==
    /\ Len(TheCostCalls) <= 1
    /\ Len(TheCostCalls) = 1 <=>
          /\ TheStep.kind = "generation"
          /\ TheConfig.calculateCost /= "none"
          /\ called
    /\ Len(TheCostCalls) = 1 =>
          /\ TheCostCalls[1].modelName = ThePayload.model
          /\ \A f \in {"inputTokens", "outputTokens", "totalTokens"} :
                TheCostCalls[1].usage[f] = ZeroIfMissing(f)
    /\ ThePayload.totalCost =
          IF Len(TheCostCalls) = 1 /\ TheConfig.calculateCost = "returns"
          THEN CostOf(TheCostCalls[1].modelName, TheCostCalls[1].usage)
          ELSE Omitted

\* C29 as stated: calculateCost is called at most once per generation and
\* only for generations whose decoded output contains a usage object; it
\* is given the resolved model name and the usage with 0 for the missing
\* counts, and what it returns becomes totalCost.
C29_CostCalledForUsageObject ==
    Sent => CostCalledWhen(IsObject(DecodedUsage))

\* C29: calculateCost is called at most once per generation and exactly
\* for the generations whose decoded output has a truthy usage value; it
\* is given the resolved model name and the usage with 0 for the missing
\* counts, and what it returns becomes totalCost.
C29_CostCalledForUsage ==
    Sent => CostCalledWhen(Truthy(DecodedUsage))

\* a generation whose usage has no input count: the function gets 0 for it
C29_Witness ==
    /\ SentGeneration
    /\ TheConfig.calculateCost = "returns"
    /\ Get(DecodedUsage, "inputTokens") = Undef
    /\ Get(DecodedUsage, "outputTokens") = Num(5)
    /\ Len(TheCostCalls) = 1
    /\ TheCostCalls[1].usage.inputTokens = Num(0)
    /\ ThePayload.totalCost = Num(10)

\* SpanMetadataExtractor.extractUsage of the one span of the batch
TheExtracted == extractUsage(TheSpan)

\* the span is a generation whose output is valid JSON with a usage object
GenerationWithUsage ==
    /\ SentGeneration
    /\ TheMetadata.output.t = "str"
    /\ JSONparse(TheMetadata.output.s).ok
    /\ IsObject(DecodedUsage)

\* C30 as stated: the usage of the generation payload agrees with
\* extractUsage of the same span in all three counts, also when the
\* output's usage has no totalTokens.
C30_PayloadUsageAgrees ==
    GenerationWithUsage =>
        /\ ~TheExtracted.threw
        /\ ThePayload.usage.input = TheExtracted.v.inputTokens
        /\ ThePayload.usage.output = TheExtracted.v.outputTokens
        /\ ThePayload.usage.total = TheExtracted.v.totalTokens

\* C30: the payload carries the counts of the output's usage as they are,
\* while extractUsage gives 0 for a missing inputTokens or outputTokens
\* and their sum for a totalTokens that is missing or 0; the two agree on
\* a count exactly when the payload's count is the number extractUsage
\* gives, which it is for every count present as a non-zero number.
C30_PayloadUsageRaw ==
    GenerationWithUsage =>
        /\ ~TheExtracted.threw
        /\ TheExtracted.v /= Null
        /\ ThePayload.usage.input = Get(DecodedUsage, "inputTokens")
        /\ ThePayload.usage.output = Get(DecodedUsage, "outputTokens")
        /\ ThePayload.usage.total = Get(DecodedUsage, "totalTokens")
        /\ TheExtracted.v.inputTokens = ZeroIfMissing("inputTokens")
        /\ TheExtracted.v.outputTokens = ZeroIfMissing("outputTokens")
        /\ TheExtracted.v.totalTokens =
              IF ZeroIfMissing("totalTokens") /= Num(0)
              THEN ZeroIfMissing("totalTokens")
              ELSE Num(ZeroIfMissing("inputTokens").n
                         + ZeroIfMissing("outputTokens").n)
        /\ (/\ ZeroIfMissing("inputTokens") /= Num(0)
            /\ ZeroIfMissing("outputTokens") /= Num(0)
            /\ ZeroIfMissing("totalTokens") /= Num(0))
              => /\ ThePayload.usage.input = TheExtracted.v.inputTokens
                 /\ ThePayload.usage.output = TheExtracted.v.outputTokens
                 /\ ThePayload.usage.total = TheExtracted.v.totalTokens

\* a usage with two counts and no total: the payload has no total, and
\* extractUsage gives the sum
C30_Witness ==
    /\ GenerationWithUsage
    /\ ThePayload.usage.input = Num(10)
    /\ ThePayload.usage.output = Num(5)
    /\ ThePayload.usage.total = Undef
    /\ TheExtracted.v = TokenUsage(Num(10), Num(5), Num(15))

====
